---- MODULE Spec2Model ----
(***************************************************************************)
(* A model of the hypergraph construction and graph extraction pipeline:   *)
(*   - S3GraphStorage (graph_extraction_agent.py): store_graph_data and    *)
(*     its retry loop, customer manifest update and validation;            *)
(*   - HypergraphParser (graph_extraction_agent.py): node/edge extraction; *)
(*   - NeptuneHyperGraphBuilder (hypergraph_builder_agent.py): V1 build;   *)
(*   - EnhancedHypergraphBuilderV2 (enhanced_hypergraph_builder_agent_v2). *)
(* Confidences are integers in hundredths (50 stands for 0.5).             *)
(***************************************************************************)
EXTENDS Integers, Sequences, FiniteSets, TLC

(***************************************************************************)
(* Generic helpers                                                         *)
(***************************************************************************)
Min(a, b) == IF a <= b THEN a ELSE b
Max(a, b) == IF a >= b THEN a ELSE b

RECURSIVE Pow2(_)
Pow2(n) == IF n = 0 THEN 1 ELSE 2 * Pow2(n - 1)

\* dict.get(key, default) on a record used as a Python dict
Get(d, k, default) == IF k \in DOMAIN d THEN d[k] ELSE default

Range(s) == {s[i] : i \in 1..Len(s)}

\* all sequences over S of length at most n
SeqsUpTo(S, n) == UNION {[1..k -> S] : k \in 0..n}

(***************************************************************************)
(* S3GraphStorage                                                          *)
(***************************************************************************)
\* S3GraphStorage.__init__
max_retries == 3
base_delay == 1

\* bounds of the storage model
MaxCount == 1
MaxPrior == 1

\* store_graph_data writing edges.json before nodes.json
required_files_swapped == <<"edges.json", "nodes.json", "metadata.json", "manifest.json">>
\* the four files of one extraction, in the order store_graph_data writes them
required_files == <<"nodes.json", "edges.json", "metadata.json", "manifest.json">>

\* outcomes of one s3_client.put_object call
PutOutcomes == {"ok", "ClientError", "BotoCoreError"}

VARIABLES
    pc,               \* position of the run inside store_graph_data
    file_idx,         \* index into required_files of the file being written / validated
    attempt,          \* loop variable of _store_json_with_retry
    trace,            \* put_object calls and time.sleep waits, in order
    bucket,           \* S3 objects: key -> content, or Absent
    retry_result,     \* per key: how _store_json_with_retry ended
    store_result,     \* how store_graph_data ended
    last_error,       \* the exception `e` caught in the retry loop, while it is in scope
    s3_prefix,        \* prefix of the extraction being stored
    extraction,       \* the ExtractionResult being stored
    customer_manifest,\* customer manifest held in memory by _update_customer_manifest
    validation        \* outcome of the count comparison of _validate_stored_files

\* HypergraphParser
VARIABLES
    hypergraph_data,  \* the hypergraph data handed to parse_hypergraph_output
    clock,            \* datetime.now(): advances with every run
    runs              \* results of the parse_hypergraph_output runs so far

parseVars == <<hypergraph_data, clock, runs>>

\* NeptuneHyperGraphBuilder (hypergraph_builder_agent.py)
VARIABLES
    v1_pc,              \* position in build_hypergraph_from_interview
    interview_analysis, \* its argument
    v1_now,             \* datetime.now()
    v1_hypernodes,      \* the HyperNode objects, in list order
    v1_hyperedges,      \* the HyperEdge objects, in list order
    storage_result      \* what store_in_neptune returned

v1Vars == <<v1_pc, interview_analysis, v1_now, v1_hypernodes, v1_hyperedges, storage_result>>

\* EnhancedHypergraphBuilderV2 (enhanced_hypergraph_builder_agent_v2.py)
VARIABLES
    v2_pc,              \* position in build_enhanced_hypergraph
    analysis_data,      \* its argument
    all_entities,       \* the CleanEntity list
    relationships,      \* the CleanRelationship list
    v2_hypernodes,      \* the EnhancedHyperNode list of the result
    v2_hyperedges       \* the EnhancedHyperEdge list of the result

v2Vars == <<v2_pc, analysis_data, all_entities, relationships, v2_hypernodes, v2_hyperedges>>

\* a call of one of the builder's helper methods on its own
VARIABLES
    fn_call,            \* the method and its arguments
    fn_result           \* what it returned

fnVars == <<fn_call, fn_result>>

\* S3GraphStorage._update_customer_manifest called by several runs of
\* store_graph_data for one customer
VARIABLES
    m_object,           \* the customer manifest object in S3, or Absent
    m_prior,            \* the extractions it listed before the calls
    m_calls             \* the calls so far, each with its position and its local manifest

manifestVars == <<m_object, m_prior, m_calls>>

\* graph_extraction_agent.lambda_handler and GraphExtractor.extract_graph_data
VARIABLES
    x_pc,               \* position of the invocation
    event,              \* the Lambda event
    x_error,            \* the exception extract_graph_data raised
    response            \* the response lambda_handler returned

extractVars == <<x_pc, event, x_error, response>>

storeVars == <<pc, file_idx, attempt, trace, bucket, retry_result, store_result,
               last_error, s3_prefix, extraction, customer_manifest, validation>>

notStoreVars == <<parseVars, v1Vars, v2Vars, fnVars, manifestVars, extractVars>>
notParseVars == <<storeVars, v1Vars, v2Vars, fnVars, manifestVars, extractVars>>
notV1Vars == <<storeVars, parseVars, v2Vars, fnVars, manifestVars, extractVars>>
notV2Vars == <<storeVars, parseVars, v1Vars, fnVars, manifestVars, extractVars>>
notFnVars == <<storeVars, parseVars, v1Vars, v2Vars, manifestVars, extractVars>>
notManifestVars == <<storeVars, parseVars, v1Vars, v2Vars, fnVars, extractVars>>
notExtractVars == <<parseVars, v1Vars, v2Vars, fnVars, manifestVars>>

Absent == [kind |-> "absent"]
ManifestObj(extractions) == [kind |-> "customer_manifest", extractions |-> extractions]
NoResult == "none"

\* variables of the parts a specification does not exercise stay as initialised
StoreIdle == pc = "idle" /\ file_idx = 1 /\ attempt = 0 /\ trace = <<>> /\ bucket = <<>>
             /\ retry_result = <<>> /\ store_result = NoResult /\ last_error = NoResult
             /\ s3_prefix = "" /\ extraction = <<>> /\ customer_manifest = Absent
             /\ validation = NoResult
ParseIdle == hypergraph_data = <<>> /\ clock = 1 /\ runs = <<>>
V1Idle == v1_pc = "idle" /\ interview_analysis = <<>> /\ v1_now = 1 /\ v1_hypernodes = <<>>
          /\ v1_hyperedges = <<>> /\ storage_result = NoResult
V2Idle == v2_pc = "idle" /\ analysis_data = <<>> /\ all_entities = <<>> /\ relationships = <<>>
          /\ v2_hypernodes = <<>> /\ v2_hyperedges = <<>>
FnIdle == fn_call = [fn |-> "none"] /\ fn_result = [done |-> FALSE]
ManifestIdle == m_object = Absent /\ m_prior = <<>> /\ m_calls = <<>>
NoError == [type |-> "none", code |-> "", message |-> <<>>, category |-> "none"]
NoResponse == [statusCode |-> 0, success |-> FALSE, error_category |-> "none", retry |-> FALSE]
ExtractIdle == x_pc = "idle" /\ event = <<>> /\ x_error = NoError /\ response = NoResponse
\* a specification exercises one part
IdleExcept(part) ==
    /\ part = "store" \/ StoreIdle
    /\ part = "parse" \/ ParseIdle
    /\ part = "v1" \/ V1Idle
    /\ part = "v2" \/ V2Idle
    /\ part = "fn" \/ FnIdle
    /\ part = "manifest" \/ ManifestIdle
    /\ part = "extract" \/ ExtractIdle

S3Key(prefix, filename) == prefix \o "/" \o filename
customer_manifest_key == "customer-graphs/c1/manifest.json"
Keys == {S3Key("customer-graphs/c1/extractions/e1", required_files[i]) : i \in 1..4}
            \cup {customer_manifest_key}

PutEvent(key, outcome) == [op |-> "put_object", key |-> key, ok |-> (outcome = "ok"), delay |-> 0]
SleepEvent(key, delay) == [op |-> "sleep", key |-> key, ok |-> FALSE, delay |-> delay]

\* the delay of the exponential backoff after failed attempt number `a` (0-based)
BackoffDelayOffByOne(a) == base_delay * Pow2(a + 1)
BackoffDelay(a) == base_delay * Pow2(a)

\* _store_json_with_retry with the last-attempt test off by one
\* (attempt == max_retries): the third failure sleeps and the loop ends silently
StoreJsonAttemptOffByOne(key, data, outcome) ==
    /\ trace' = IF outcome # "ok"
                THEN trace \o <<PutEvent(key, outcome), SleepEvent(key, BackoffDelay(attempt))>>
                ELSE Append(trace, PutEvent(key, outcome))
    /\ bucket' = IF outcome = "ok" THEN [bucket EXCEPT ![key] = data] ELSE bucket
    /\ last_error' = IF outcome = "ok" THEN NoResult ELSE outcome
    /\ retry_result' = [retry_result EXCEPT ![key] =
                          IF outcome = "ok" \/ attempt = max_retries - 1 THEN "returned"
                          ELSE NoResult]
    /\ attempt' = IF outcome = "ok" \/ attempt = max_retries - 1 THEN 0 ELSE attempt + 1

\* One iteration of the loop of _store_json_with_retry for `key`, with the
\* outcome of its put_object call.  Sets retry_result[key] when the loop ends.
StoreJsonAttempt(key, data, outcome) ==
    /\ trace' = IF outcome # "ok" /\ attempt < max_retries - 1
                THEN trace \o <<PutEvent(key, outcome), SleepEvent(key, BackoffDelay(attempt))>>
                ELSE Append(trace, PutEvent(key, outcome))
    /\ bucket' = IF outcome = "ok" THEN [bucket EXCEPT ![key] = data] ELSE bucket
    /\ last_error' = IF outcome = "ok" THEN NoResult ELSE outcome
    /\ retry_result' = [retry_result EXCEPT ![key] =
                          IF outcome = "ok" THEN "returned"
                          ELSE IF attempt = max_retries - 1 THEN "S3StorageError"
                          ELSE NoResult]
    /\ attempt' = IF outcome = "ok" \/ attempt = max_retries - 1 THEN 0 ELSE attempt + 1

\* what store_graph_data serialises into each file
FileData(i) ==
    CASE i = 1 -> [kind |-> "nodes", count |-> extraction.total_nodes]
      [] i = 2 -> [kind |-> "edges", count |-> extraction.total_edges]
      [] i = 3 -> [kind |-> "metadata", count |-> 0]
      [] i = 4 -> [kind |-> "manifest", count |-> 0]

StoreInit ==
    /\ IdleExcept("store")
    /\ pc = "store_files"
    /\ file_idx = 1
    /\ attempt = 0
    /\ trace = <<>>
    /\ s3_prefix = "customer-graphs/c1/extractions/e1"
    /\ \E prior \in {Absent} \cup {ManifestObj(x) : x \in SeqsUpTo({"e0"}, MaxPrior)} :
          bucket = [k \in Keys |-> IF k = customer_manifest_key THEN prior ELSE Absent]
    /\ retry_result = [k \in Keys |-> NoResult]
    /\ store_result = NoResult
    /\ last_error = NoResult
    /\ \E n \in 0..MaxCount, e \in 0..MaxCount :
          extraction = [extraction_id |-> "e1", customer_id |-> "c1",
                        total_nodes |-> n, total_edges |-> e]
    /\ customer_manifest = Absent
    /\ validation = NoResult

\* store_graph_data, lines 654-669: one put_object attempt for the current file
StoreFile ==
    /\ UNCHANGED notStoreVars
    /\ pc = "store_files"
    /\ \E outcome \in PutOutcomes :
        LET key == S3Key(s3_prefix, required_files[file_idx]) IN
        /\ StoreJsonAttempt(key, FileData(file_idx), outcome)
        /\ CASE retry_result'[key] = "returned" ->
                  /\ file_idx' = IF file_idx < 4 THEN file_idx + 1 ELSE 1
                  /\ pc' = IF file_idx < 4 THEN "store_files" ELSE "customer_manifest_get"
                  /\ store_result' = store_result
             [] retry_result'[key] = "S3StorageError" ->
                  \* except Exception (line 686): re-raised as S3StorageError
                  /\ pc' = "raised"
                  /\ store_result' = "S3StorageError"
                  /\ file_idx' = file_idx
             [] OTHER ->
                  /\ UNCHANGED <<pc, file_idx, store_result>>
    /\ UNCHANGED <<s3_prefix, extraction, customer_manifest, validation>>

\* _update_customer_manifest without its except clause: a failed read fails
\* the store
UpdateCustomerManifestGetRaising ==
    /\ UNCHANGED notStoreVars
    /\ pc = "customer_manifest_get"
    /\ \E outcome \in {"found_or_missing", "ClientError", "corrupt"} :
        IF outcome = "found_or_missing"
        THEN /\ customer_manifest' =
                    ManifestObj(Append(IF bucket[customer_manifest_key].kind = "absent" THEN <<>>
                                       ELSE bucket[customer_manifest_key].extractions,
                                       extraction.extraction_id))
             /\ pc' = "customer_manifest_put"
             /\ store_result' = store_result
        ELSE /\ customer_manifest' = customer_manifest
             /\ pc' = "raised"
             /\ store_result' = "S3StorageError"
    /\ UNCHANGED <<file_idx, attempt, trace, bucket, retry_result,
                   last_error, s3_prefix, extraction, validation>>

\* _update_customer_manifest, lines 789-815: read the manifest (or create it) and append
UpdateCustomerManifestGet ==
    /\ UNCHANGED notStoreVars
    /\ pc = "customer_manifest_get"
    /\ \E outcome \in {"found_or_missing", "ClientError", "corrupt"} :
        IF outcome = "found_or_missing"
        THEN /\ customer_manifest' =
                    ManifestObj(Append(IF bucket[customer_manifest_key].kind = "absent" THEN <<>>
                                       ELSE bucket[customer_manifest_key].extractions,
                                       extraction.extraction_id))
             /\ pc' = "customer_manifest_put"
        ELSE \* except Exception (line 820): logged, not raised
             /\ customer_manifest' = customer_manifest
             /\ pc' = "validate_head"
    /\ UNCHANGED <<file_idx, attempt, trace, bucket, retry_result, store_result,
                   last_error, s3_prefix, extraction, validation>>

\* _update_customer_manifest, line 818: one put_object attempt for the customer manifest
UpdateCustomerManifestPut ==
    /\ UNCHANGED notStoreVars
    /\ pc = "customer_manifest_put"
    /\ \E outcome \in PutOutcomes :
        /\ StoreJsonAttempt(customer_manifest_key, customer_manifest, outcome)
        /\ pc' = IF retry_result'[customer_manifest_key] = NoResult
                 THEN "customer_manifest_put" ELSE "validate_head"
    /\ UNCHANGED <<file_idx, store_result, s3_prefix, extraction, customer_manifest, validation>>

\* _validate_stored_files, lines 832-850: head_object of the current file; a
\* failure is recorded in `validation` for the message of its S3StorageError
ValidateHead ==
    /\ UNCHANGED notStoreVars
    /\ pc = "validate_head"
    /\ \E outcome \in {"ok", "empty", "NoSuchKey", "ClientError"} :
        IF outcome = "ok"
        THEN /\ file_idx' = IF file_idx < 4 THEN file_idx + 1 ELSE 1
             /\ pc' = IF file_idx < 4 THEN "validate_head" ELSE "validate_counts"
             /\ store_result' = store_result
             /\ validation' = validation
        ELSE /\ pc' = "raised"
             /\ store_result' = "S3StorageError"
             /\ file_idx' = file_idx
             /\ validation' = outcome
    /\ UNCHANGED <<attempt, trace, bucket, retry_result, last_error, s3_prefix,
                   extraction, customer_manifest>>

\* _validate_stored_files, lines 852-877: read back nodes.json and edges.json and
\* compare the counts; the S3StorageError of a mismatch is raised inside the try
\* and caught by `except Exception`, which only logs a warning
\* ("count_mismatch"), as it does for a failed read ("warning")
ValidateCounts ==
    /\ UNCHANGED notStoreVars
    /\ pc = "validate_counts"
    /\ \E outcome \in {"read", "JSONDecodeError", "ClientError"},
          stored_nodes \in {extraction.total_nodes, extraction.total_nodes + 1},
          stored_edges \in {extraction.total_edges, extraction.total_edges + 1} :
        CASE outcome = "JSONDecodeError" ->
                /\ pc' = "raised"
                /\ store_result' = "S3StorageError"
                /\ validation' = "corrupted"
          [] outcome = "ClientError" ->
                /\ pc' = "returned"
                /\ store_result' = "s3://" \o s3_prefix
                /\ validation' = "warning"
          [] OTHER ->
                /\ pc' = "returned"
                /\ store_result' = "s3://" \o s3_prefix
                /\ validation' = IF stored_nodes # extraction.total_nodes
                                    \/ stored_edges # extraction.total_edges
                                 THEN "count_mismatch" ELSE "passed"
    /\ UNCHANGED <<file_idx, attempt, trace, bucket, retry_result, last_error,
                   s3_prefix, extraction, customer_manifest>>

StoreNext ==
    \/ StoreFile
    \/ UpdateCustomerManifestGet
    \/ UpdateCustomerManifestPut
    \/ ValidateHead
    \/ ValidateCounts


(***************************************************************************)
(* HypergraphParser                                                        *)
(* An ExtractedNode / ExtractedEdge is modelled by its id, customer_id,    *)
(* type, confidence / weight, endpoints, source_file and created_at; the   *)
(* label, attributes and metadata fields are not represented.  `origin`    *)
(* is the position of the hypernode / hyperedge the item was made from.    *)
(***************************************************************************)
\* bounds of the parser model
MaxNodes == 2
MaxEdges == 1

\* HypergraphParser.__init__
supported_node_types ==
    {"person", "organization", "concept", "skill", "need", "behavioral_pattern",
     "personality_trait", "financial_instrument", "business_concept", "topic"}
supported_edge_types ==
    {"demonstrates", "relates_to", "influences", "requires", "enables", "part_of",
     "similar_to", "works_with", "specializes_in", "interviews", "discusses",
     "affiliated_with", "uses"}

\* str.lower() on the strings that occur in the inputs
Lower(s) ==
    CASE s = "TOPIC" -> "topic"
      [] s = "USES" -> "uses"
      [] s \in {"Jane Doe", "JANE DOE"} -> "jane doe"
      [] s \in {"Planning", "PLANNING"} -> "planning"
      [] s \in {"Wealth", "WEALTH"} -> "wealth"
      [] s \in {"Ann", "ANN"} -> "ann"
      [] s \in {"Sql", "SQL"} -> "sql"
      [] s = "Zed" -> "zed"
      [] s = "Interview" -> "interview"
      [] s = "Leadership" -> "leadership"
      [] s = "Q:" -> "q:"
      [] s = "Host:" -> "host:"
      [] OTHER -> s

\* a JSON value where a confidence is expected: a number (in hundredths) or a
\* text that float() rejects
Num(v) == [kind |-> "number", v |-> v]
NotNum == [kind |-> "text"]
FloatRaises(x) == x.kind # "number"

\* max(0.0, min(1.0, confidence)) without the upper limit
ClampNoUpper(c) == Max(0, c)
\* max(0.0, min(1.0, confidence))
Clamp(c) == Max(0, Min(100, c))


customer_id == "c1"
source_file == "interview.txt"

\* _generate_node_id with the extraction time mixed into the hash
GenerateNodeIdTimestamped(hypernode, cust) ==
    "node_" \o cust \o ":" \o Get(hypernode, "node_type", "concept")
            \o ":" \o Get(hypernode, "content", "") \o ":" \o ToString(clock)
\* _generate_node_id; the truncated sha256 is taken to be collision free, so the
\* id is represented by the string that is hashed
GenerateNodeId(hypernode, cust) ==
    "node_" \o cust \o ":" \o Get(hypernode, "node_type", "concept")
            \o ":" \o Get(hypernode, "content", "")

\* _generate_edge_id
GenerateEdgeId(hyperedge, cust) ==
    "edge_" \o cust \o ":" \o Get(hyperedge, "source_node_id", "")
            \o ":" \o Get(hyperedge, "target_node_id", "")
            \o ":" \o Get(hyperedge, "edge_type", "relates_to")

\* lines 415-418 without the fallback to 'concept'
NormalizeNodeTypeNoDefault(hypernode) == Lower(Get(hypernode, "node_type", "concept"))
\* lines 415-418: lower-case the type, default to 'concept' when unsupported
NormalizeNodeType(hypernode) ==
    LET node_type == Lower(Get(hypernode, "node_type", "concept"))
    IN IF node_type \notin supported_node_types THEN "concept" ELSE node_type

\* lines 472-475
NormalizeEdgeType(hyperedge) ==
    LET edge_type == Lower(Get(hyperedge, "edge_type", "relates_to"))
    IN IF edge_type \notin supported_edge_types THEN "relates_to" ELSE edge_type

\* _extract_nodes: a hypernode whose extraction raises is logged and skipped
RECURSIVE ExtractNodesFrom(_, _, _, _, _)
ExtractNodesFrom(hypernodes, i, cust, src, now) ==
    IF i > Len(hypernodes) THEN <<>>
    ELSE LET hypernode == hypernodes[i]
             confidence == Get(hypernode, "confidence", Num(50))
             rest == ExtractNodesFrom(hypernodes, i + 1, cust, src, now)
         IN IF FloatRaises(confidence) THEN rest
            ELSE <<[id |-> GenerateNodeId(hypernode, cust),
                    customer_id |-> cust,
                    node_type |-> NormalizeNodeType(hypernode),
                    confidence |-> Clamp(confidence.v),
                    source_file |-> src,
                    created_at |-> now,
                    origin |-> i]>> \o rest
ExtractNodes(hypernodes, cust, src, now) == ExtractNodesFrom(hypernodes, 1, cust, src, now)

\* _extract_edges: an edge without source or target id is skipped, and so is one
\* whose extraction raises
RECURSIVE ExtractEdgesFrom(_, _, _, _, _)
ExtractEdgesFrom(hyperedges, i, cust, src, now) ==
    IF i > Len(hyperedges) THEN <<>>
    ELSE LET hyperedge == hyperedges[i]
             source_node_id == Get(hyperedge, "source_node_id", "")
             target_node_id == Get(hyperedge, "target_node_id", "")
             confidence == Get(hyperedge, "confidence", Num(50))
             rest == ExtractEdgesFrom(hyperedges, i + 1, cust, src, now)
         IN IF source_node_id = "" \/ target_node_id = "" THEN rest
            ELSE IF FloatRaises(confidence) THEN rest
            ELSE <<[id |-> GenerateEdgeId(hyperedge, cust),
                    customer_id |-> cust,
                    source_node_id |-> source_node_id,
                    target_node_id |-> target_node_id,
                    relationship_type |-> NormalizeEdgeType(hyperedge),
                    weight |-> Clamp(confidence.v),
                    source_file |-> src,
                    created_at |-> now,
                    origin |-> i]>> \o rest
ExtractEdges(hyperedges, cust, src, now) == ExtractEdgesFrom(hyperedges, 1, cust, src, now)

\* parse_hypergraph_output, lines 368-391: standard nodes/edges to hypernodes/hyperedges
ToHypernode(node) ==
    [content |-> Get(node, "text", Get(node, "content", Get(node, "label", ""))),
     node_type |-> Get(node, "type", Get(node, "node_type", "concept")),
     confidence |-> Get(node, "confidence", Get(node, "weight", Num(50)))]
ToHyperedge(edge) ==
    [source_node_id |-> Get(edge, "source", Get(edge, "source_id", Get(edge, "from", ""))),
     target_node_id |-> Get(edge, "target", Get(edge, "target_id", Get(edge, "to", ""))),
     edge_type |-> Get(edge, "type", Get(edge, "edge_type", Get(edge, "relationship", "relates_to"))),
     confidence |-> Get(edge, "confidence", Get(edge, "weight", Num(50)))]

\* the hypernodes / hyperedges parse_hypergraph_output extracts from
Hypernodes(data) ==
    IF "hypernodes" \in DOMAIN data \/ "hyperedges" \in DOMAIN data
    THEN Get(data, "hypernodes", <<>>)
    ELSE LET nodes == Get(data, "nodes", <<>>) IN [i \in 1..Len(nodes) |-> ToHypernode(nodes[i])]
Hyperedges(data) ==
    IF "hypernodes" \in DOMAIN data \/ "hyperedges" \in DOMAIN data
    THEN Get(data, "hyperedges", <<>>)
    ELSE LET edges == Get(data, "edges", <<>>) IN [i \in 1..Len(edges) |-> ToHyperedge(edges[i])]

\* parse_hypergraph_output
ParseHypergraphOutput(data, cust, src, now) ==
    [extracted_nodes |-> ExtractNodes(Hypernodes(data), cust, src, now),
     extracted_edges |-> ExtractEdges(Hyperedges(data), cust, src, now)]

\* the inputs of the parser model
HypernodeInputs ==
    {[content |-> "ann", node_type |-> t, confidence |-> Num(40)] : t \in {"person", "TOPIC", "widget"}}
    \cup {[content |-> "ann", node_type |-> "skill", confidence |-> k] : k \in {Num(-50), Num(150), NotNum}}
    \cup {[content |-> "bob"], [node_type |-> "need", confidence |-> Num(100)]}
HyperedgeInputs ==
    {[source_node_id |-> "person_a1", target_node_id |-> "skill_b2", edge_type |-> t, confidence |-> k] :
        t \in {"USES", "owns"}, k \in {Num(-50), Num(150)}}
    \cup {[source_node_id |-> "person_a1", target_node_id |-> "skill_b2"],
          [target_node_id |-> "skill_b2", edge_type |-> "uses", confidence |-> Num(70)]}
StandardNodeInputs ==
    {[text |-> "ann", type |-> "TOPIC", confidence |-> Num(150)],
     [label |-> "ann", node_type |-> "widget", weight |-> Num(-50)]}
StandardEdgeInputs ==
    {[source |-> "n1", target |-> "n2", type |-> "USES", weight |-> Num(150)],
     [from |-> "n1", to |-> "n2", relationship |-> "owns", confidence |-> Num(-50)]}

ParseInit ==
    /\ IdleExcept("parse")
    /\ \/ \E ns \in SeqsUpTo(HypernodeInputs, MaxNodes), es \in SeqsUpTo(HyperedgeInputs, MaxEdges) :
             hypergraph_data = [hypernodes |-> ns, hyperedges |-> es]
       \/ \E ns \in SeqsUpTo(StandardNodeInputs, MaxNodes), es \in SeqsUpTo(StandardEdgeInputs, MaxEdges) :
             hypergraph_data = [nodes |-> ns, edges |-> es]
    /\ clock = 1
    /\ runs = <<>>

\* one run of parse_hypergraph_output on the data
Parse ==
    /\ UNCHANGED notParseVars
    /\ Len(runs) < 2
    /\ runs' = Append(runs, ParseHypergraphOutput(hypergraph_data, customer_id, source_file, clock))
    /\ clock' = clock + 1
    /\ UNCHANGED hypergraph_data

ParseNext == Parse


(***************************************************************************)
(* NeptuneHyperGraphBuilder.build_hypergraph_from_interview                *)
(* (hypergraph_builder_agent.py): create_hypernodes, create_hyperedges,    *)
(* apply_temporal_indexing, calculate_confidence_scores, store_in_neptune. *)
(* HyperNode and HyperEdge objects are records; the lists hold the objects *)
(* themselves, so a step that assigns to a field of an object changes the  *)
(* record at that position of the list.  Decimal confidences are integers  *)
(* in hundredths; a quotient is rounded down to the hundredth.             *)
(***************************************************************************)
\* bounds of the V1 builder model
MaxEntities == 2

\* entities and skills an interview analysis may list
EntityInputs ==
    {[text |-> "ann", entity_type |-> "PERSON", confidence |-> 90],
     [text |-> "bob", entity_type |-> "PERSON", confidence |-> 50],
     [text |-> "acme", entity_type |-> "ORGANIZATION", confidence |-> 60]}
SkillLists == {<<>>, <<"sql">>}
\* confidences the model invoked by determine_relationship may answer with
RelationshipConfidences == {0, 70}
\* strengths calculate_cooccurrence_strength may derive from raw_text
CooccurrenceStrengths == {0, 50, 90}

generate_node_id(content, node_type) == node_type \o "_" \o content \o "_" \o node_type
\* the md5 of the sorted, joined node ids is represented by the ids and the type
generate_edge_id(node_ids, edge_type) == <<edge_type, Range(node_ids)>>

EntityNode(entity, node_type, metadata, timestamp, source) ==
    [id |-> generate_node_id(entity.text, node_type), content |-> entity.text,
     node_type |-> node_type, confidence |-> entity.confidence, timestamp |-> timestamp,
     source |-> source, metadata |-> metadata]

RECURSIVE PersonNodes(_, _, _)
PersonNodes(entities, timestamp, source) ==
    IF entities = <<>> THEN <<>>
    ELSE LET entity == Head(entities)
             rest == PersonNodes(Tail(entities), timestamp, source)
         IN IF entity.entity_type = "PERSON"
            THEN <<EntityNode(entity, "person",
                              [entity_type |-> "PERSON", extraction_confidence |-> entity.confidence,
                               context |-> ""], timestamp, source)>> \o rest
            ELSE rest

RECURSIVE OrganizationNodes(_, _, _)
OrganizationNodes(entities, timestamp, source) ==
    IF entities = <<>> THEN <<>>
    ELSE LET entity == Head(entities)
             rest == OrganizationNodes(Tail(entities), timestamp, source)
         IN IF entity.entity_type = "ORGANIZATION"
            THEN <<EntityNode(entity, "organization",
                              [entity_type |-> "ORGANIZATION",
                               extraction_confidence |-> entity.confidence], timestamp, source)>> \o rest
            ELSE rest

SkillNodes(skills, timestamp, source) ==
    [i \in 1..Len(skills) |->
        [id |-> generate_node_id(skills[i], "skill"), content |-> skills[i], node_type |-> "skill",
         confidence |-> 80, timestamp |-> timestamp, source |-> source,
         metadata |-> [type |-> "skill", domain |-> "professional"]]]

\* create_hypernodes; the analyses considered list no achievements, goals or
\* dominant needs
create_hypernodes(analysis, timestamp) ==
    PersonNodes(analysis.entities, timestamp, analysis.file_path)
    \o OrganizationNodes(analysis.entities, timestamp, analysis.file_path)
    \o SkillNodes(analysis.key_insights.skills_and_competencies, timestamp, analysis.file_path)

NewEdge(node1, node2, edge_type, c, timestamp, relationship_type) ==
    [id |-> generate_edge_id(<<node1.id, node2.id>>, edge_type), nodes |-> <<node1.id, node2.id>>,
     edge_type |-> edge_type, strength |-> c, confidence |-> c, timestamp |-> timestamp,
     evidence |-> <<>>, metadata |-> [relationship_type |-> relationship_type]]

should_create_cooccurrence_edge(node1, node2) ==
    IF node1.node_type = node2.node_type
    THEN node1.node_type \in {"skill", "achievement"}
    ELSE \E pair \in {<<"person", "skill">>, <<"person", "achievement">>, <<"skill", "achievement">>,
                      <<"goal", "skill">>, <<"need", "goal">>} :
            <<node1.node_type, node2.node_type>> = pair \/ <<node2.node_type, node1.node_type>> = pair

\* pairs of list positions in the order the nested loops visit them
AllPairs(n) == [k \in 1..(n * n) |-> <<((k - 1) \div n) + 1, ((k - 1) % n) + 1>>]

RECURSIVE EdgesFor(_, _, _, _, _, _, _)
EdgesFor(pairs, nodes, answers, threshold, edge_type, relationship_type, timestamp) ==
    IF pairs = <<>> THEN <<>>
    ELSE LET p == Head(pairs)
             rest == EdgesFor(Tail(pairs), nodes, answers, threshold, edge_type,
                              relationship_type, timestamp)
         IN IF answers[p] > threshold
            THEN <<NewEdge(nodes[p[1]], nodes[p[2]], edge_type, answers[p], timestamp,
                           relationship_type)>> \o rest
            ELSE rest

SkillPairs(nodes) ==
    SelectSeq(AllPairs(Len(nodes)),
              LAMBDA p : nodes[p[1]].node_type = "person" /\ nodes[p[2]].node_type = "skill")
CooccurrencePairs(nodes) ==
    SelectSeq(AllPairs(Len(nodes)),
              LAMBDA p : p[1] < p[2] /\ should_create_cooccurrence_edge(nodes[p[1]], nodes[p[2]]))

\* create_hyperedges, given the answers of determine_relationship and the
\* strengths of calculate_cooccurrence_strength for the pairs asked about
create_hyperedges(nodes, has_skill, cooccurrence, timestamp) ==
    EdgesFor(SkillPairs(nodes), nodes, has_skill, 60, "has_skill", "skill_possession", timestamp)
    \o EdgesFor(CooccurrencePairs(nodes), nodes, cooccurrence, 40, "co_occurrence",
                "co_occurrence", timestamp)

\* apply_temporal_indexing assigning a fresh metadata dict
TemporallyIndexedReplacingMetadata(items) ==
    [i \in 1..Len(items) |->
        [items[i] EXCEPT !.metadata =
            [temporal_index |-> items[i].timestamp, temporal_category |-> "present"]]]
\* apply_temporal_indexing: sets two keys of each object's metadata
TemporallyIndexed(items) ==
    [i \in 1..Len(items) |->
        [items[i] EXCEPT !.metadata =
            [temporal_index |-> items[i].timestamp, temporal_category |-> "present"] @@ @]]

RECURSIVE SumConfidence(_)
SumConfidence(items) ==
    IF items = <<>> THEN 0 ELSE Head(items).confidence + SumConfidence(Tail(items))

\* calculate_confidence_scores, first loop: node.confidence is reassigned when
\* some edge names the node
ScoredNodes(nodes, edges) ==
    [i \in 1..Len(nodes) |->
        LET supporting_edges == SelectSeq(edges, LAMBDA e : nodes[i].id \in Range(e.nodes))
        IN IF supporting_edges # <<>>
           THEN [nodes[i] EXCEPT !.confidence =
                    (@ + SumConfidence(supporting_edges) \div Len(supporting_edges)) \div 2]
           ELSE nodes[i]]
\* second loop, over the nodes as the first loop left them
ScoredEdges(nodes, edges) ==
    [j \in 1..Len(edges) |->
        LET named == SelectSeq(nodes, LAMBDA n : n.id \in Range(edges[j].nodes))
        IN IF named # <<>>
           THEN [edges[j] EXCEPT !.confidence = (@ + SumConfidence(named) \div Len(named)) \div 2]
           ELSE edges[j]]

V1Init ==
    /\ IdleExcept("v1")
    /\ v1_pc = "create_hypernodes"
    /\ \E entities \in SeqsUpTo(EntityInputs, MaxEntities), skills \in SkillLists :
          interview_analysis = [file_path |-> "interview.txt", entities |-> entities,
                                key_insights |-> [skills_and_competencies |-> skills]]
    /\ v1_now = 1
    /\ v1_hypernodes = <<>>
    /\ v1_hyperedges = <<>>
    /\ storage_result = NoResult

\* step 1
CreateHypernodes ==
    /\ UNCHANGED notV1Vars
    /\ v1_pc = "create_hypernodes"
    /\ v1_hypernodes' = create_hypernodes(interview_analysis, v1_now)
    /\ v1_now' \in {v1_now, v1_now + 1}
    /\ v1_pc' = "create_hyperedges"
    /\ UNCHANGED <<interview_analysis, v1_hyperedges, storage_result>>

\* step 2
CreateHyperedges ==
    /\ UNCHANGED notV1Vars
    /\ v1_pc = "create_hyperedges"
    /\ \E has_skill \in [Range(SkillPairs(v1_hypernodes)) -> RelationshipConfidences],
          cooccurrence \in [Range(CooccurrencePairs(v1_hypernodes)) -> CooccurrenceStrengths] :
          v1_hyperedges' = create_hyperedges(v1_hypernodes, has_skill, cooccurrence, v1_now)
    /\ v1_pc' = "apply_temporal_indexing"
    /\ UNCHANGED <<interview_analysis, v1_now, v1_hypernodes, storage_result>>

\* step 3
ApplyTemporalIndexing ==
    /\ UNCHANGED notV1Vars
    /\ v1_pc = "apply_temporal_indexing"
    /\ v1_hypernodes' = TemporallyIndexed(v1_hypernodes)
    /\ v1_hyperedges' = TemporallyIndexed(v1_hyperedges)
    /\ v1_pc' = "calculate_confidence_scores"
    /\ UNCHANGED <<interview_analysis, v1_now, storage_result>>

\* step 4
CalculateConfidenceScores ==
    /\ UNCHANGED notV1Vars
    /\ v1_pc = "calculate_confidence_scores"
    /\ v1_hypernodes' = ScoredNodes(v1_hypernodes, v1_hyperedges)
    /\ v1_hyperedges' = ScoredEdges(ScoredNodes(v1_hypernodes, v1_hyperedges), v1_hyperedges)
    /\ v1_pc' = "store_in_neptune"
    /\ UNCHANGED <<interview_analysis, v1_now, storage_result>>

\* steps 5 and 6: store_in_neptune builds its queries from the objects and
\* calculate_graph_metrics reads them
StoreInNeptune ==
    /\ UNCHANGED notV1Vars
    /\ v1_pc = "store_in_neptune"
    /\ storage_result' = [success |-> TRUE, stored_nodes |-> Len(v1_hypernodes),
                          stored_edges |-> Len(SelectSeq(v1_hyperedges, LAMBDA e : Len(e.nodes) = 2))]
    /\ v1_pc' = "returned"
    /\ UNCHANGED <<interview_analysis, v1_now, v1_hypernodes, v1_hyperedges>>

V1Next ==
    \/ CreateHypernodes
    \/ CreateHyperedges
    \/ ApplyTemporalIndexing
    \/ CalculateConfidenceScores
    \/ StoreInNeptune


(***************************************************************************)
(* EnhancedHypergraphBuilderV2.build_enhanced_hypergraph                   *)
(* (enhanced_hypergraph_builder_agent_v2.py) on analyses that are not in   *)
(* interview format, carry no raw_text (so _extract_entities_with_llm      *)
(* returns nothing) and list no organizations, goals, needs, traits or     *)
(* behavioral patterns.  CleanEntity, CleanRelationship, EnhancedHyperNode *)
(* and EnhancedHyperEdge are records; context, evidence, reasoning,        *)
(* domain_relevance and timestamps are not represented.                    *)
(***************************************************************************)
\* bounds of the V2 builder model
MaxFileEntities == 1
MaxDedup == 3
MaxCallItems == 2

\* a Python dict: <<key, value>> pairs in insertion order
DictHas(d, k) == \E i \in 1..Len(d) : d[i][1] = k
DictGet(d, k) == d[CHOOSE i \in 1..Len(d) : d[i][1] = k][2]
DictSet(d, k, v) ==
    IF DictHas(d, k) THEN [i \in 1..Len(d) |-> IF d[i][1] = k THEN <<k, v>> ELSE d[i]]
    ELSE Append(d, <<k, v>>)
DictValues(d) == [i \in 1..Len(d) |-> d[i][2]]
Take(items, n) == SubSeq(items, 1, Min(n, Len(items)))

\* the comparison of lines 626 and 1098 with >= for >
HigherConfidenceOrEqual(new, old) == new.confidence >= old.confidence
\* lines 626 and 1098: item.confidence > map[key].confidence
HigherConfidence(new, old) == new.confidence > old.confidence

RECURSIVE DeduplicateEntitiesInto(_, _)
DeduplicateEntitiesInto(entities, entity_map) ==
    IF entities = <<>> THEN DictValues(entity_map)
    ELSE LET entity == Head(entities)
             key == <<Lower(entity.text), entity.entity_type>>
         IN DeduplicateEntitiesInto(Tail(entities),
                IF ~DictHas(entity_map, key) \/ HigherConfidence(entity, DictGet(entity_map, key))
                THEN DictSet(entity_map, key, entity)
                ELSE entity_map)
\* _deduplicate_entities
DeduplicateEntities(entities) == DeduplicateEntitiesInto(entities, <<>>)

RECURSIVE DeduplicateRelationshipsInto(_, _)
DeduplicateRelationshipsInto(rels, relationship_map) ==
    IF rels = <<>> THEN DictValues(relationship_map)
    ELSE LET rel == Head(rels)
             key == <<Lower(rel.source_entity), Lower(rel.target_entity), rel.relationship_type>>
         IN DeduplicateRelationshipsInto(Tail(rels),
                IF ~DictHas(relationship_map, key)
                   \/ HigherConfidence(rel, DictGet(relationship_map, key))
                THEN DictSet(relationship_map, key, rel)
                ELSE relationship_map)
\* _deduplicate_relationships
DeduplicateRelationships(rels) == DeduplicateRelationshipsInto(rels, <<>>)

\* _clean_entity_text on the texts of the inputs: strips, capitalises the
\* first letter
CleanEntityText(text) == CASE text = "wealth" -> "Wealth" [] OTHER -> text

CleanEntity(text, entity_type, confidence, source, properties) ==
    [text |-> text, entity_type |-> entity_type, confidence |-> confidence, source |-> source,
     properties |-> properties]

\* _extract_person_entities; every customer name of the inputs has at
\* most three words
ExtractPersonEntities(file_analysis) ==
    (IF file_analysis.customer_name # ""
     THEN <<CleanEntity(file_analysis.customer_name, "person", 95, "file_analysis",
                        [role |-> "customer", primary |-> TRUE])>>
     ELSE <<>>)
    \o LET people == SelectSeq(file_analysis.entities,
                               LAMBDA e : e.type = "PERSON" /\ e.confidence > 70)
       IN [i \in 1..Len(people) |->
              CleanEntity(people[i].text, "person", people[i].confidence, "file_analysis",
                          [role |-> "mentioned"])]

\* _extract_skill_entities, _extract_concept_entities, _extract_life_theme_entities
TextEntities(texts, limit, entity_type, confidence, source, properties) ==
    LET cleaned == SelectSeq([i \in 1..Len(Take(texts, limit)) |-> CleanEntityText(texts[i])],
                             LAMBDA t : t # "")
    IN [i \in 1..Len(cleaned) |-> CleanEntity(cleaned[i], entity_type, confidence, source, properties)]

extract_entities_from_file_analysis(file_analysis) ==
    DeduplicateEntities(
        ExtractPersonEntities(file_analysis)
        \o TextEntities(file_analysis.key_insights.skills_and_competencies, 5, "skill", 80,
                        "file_analysis", [category |-> "professional"])
        \o TextEntities(file_analysis.key_insights.main_themes, 3, "concept", 70,
                        "file_analysis", [category |-> "theme"]))

extract_entities_from_needs_analysis(needs_analysis) ==
    DeduplicateEntities(
        TextEntities(needs_analysis.life_themes, 3, "concept", 70, "needs_analysis",
                     [category |-> "life_theme"]))

\* lines 1124-1143: both lists, and the customer when there are fewer than three
AllEntities(analysis) ==
    LET found == extract_entities_from_file_analysis(analysis.file_analysis)
                 \o extract_entities_from_needs_analysis(analysis.needs_analysis)
        customer_name == IF analysis.customer_name # "" THEN analysis.customer_name
                         ELSE analysis.file_analysis.customer_name
    IN IF Len(found) < 3 /\ customer_name # ""
       THEN Append(found, CleanEntity(customer_name, "person", 90, "metadata",
                                      [role |-> "customer", primary |-> TRUE]))
       ELSE found

CleanRelationship(entity1, entity2, relationship_type, confidence, source) ==
    [source_entity |-> entity1.text, target_entity |-> entity2.text,
     relationship_type |-> relationship_type, confidence |-> confidence, source |-> source]

\* _extract_person_skill_relationships
PersonSkillRelationships(entities) ==
    LET pairs == SelectSeq(AllPairs(Len(entities)),
                           LAMBDA p : /\ entities[p[1]].entity_type = "person"
                                      /\ Get(entities[p[1]].properties, "primary", FALSE)
                                      /\ entities[p[2]].entity_type = "skill")
    IN [k \in 1..Len(pairs) |->
           CleanRelationship(entities[pairs[k][1]], entities[pairs[k][2]], "specializes_in", 80,
                             "file_analysis")]

\* _skills_relate_to_concept on the texts of the inputs
SkillsRelateToConcept(skill, concept) ==
    Lower(skill.text) \in {"planning"} /\ Lower(concept.text) \in {"planning", "wealth"}

\* _extract_skill_concept_relationships
SkillConceptRelationships(entities) ==
    LET pairs == SelectSeq(AllPairs(Len(entities)),
                           LAMBDA p : /\ entities[p[1]].entity_type = "skill"
                                      /\ entities[p[2]].entity_type = "concept"
                                      /\ SkillsRelateToConcept(entities[p[1]], entities[p[2]]))
    IN [k \in 1..Len(pairs) |->
           CleanRelationship(entities[pairs[k][1]], entities[pairs[k][2]], "relates_to", 70,
                             "file_analysis")]

\* what the model asked by _analyze_semantic_relationship may answer
SemanticAnswers ==
    {[has_relationship |-> FALSE, relationship_type |-> "RELATES_TO", confidence |-> 0],
     [has_relationship |-> TRUE, relationship_type |-> "RELATES_TO", confidence |-> 90]}

\* the pairs _extract_semantic_relationships_with_llm asks about
SemanticPairs(entities) ==
    Take(SelectSeq(AllPairs(Len(entities)),
                   LAMBDA p : p[1] < p[2]
                              /\ entities[p[1]].entity_type # entities[p[2]].entity_type), 10)

\* _extract_semantic_relationships_with_llm
SemanticRelationships(entities, answers) ==
    LET pairs == SelectSeq(SemanticPairs(entities),
                           LAMBDA p : answers[p].has_relationship /\ answers[p].confidence > 60)
    IN [k \in 1..Len(pairs) |->
           CleanRelationship(entities[pairs[k][1]], entities[pairs[k][2]],
                             Lower(answers[pairs[k]].relationship_type),
                             answers[pairs[k]].confidence, "llm_semantic")]

extract_relationships(entities, answers) ==
    DeduplicateRelationships(PersonSkillRelationships(entities)
                             \o SkillConceptRelationships(entities)
                             \o SemanticRelationships(entities, answers))

\* _generate_node_id; the md5 of the lower-cased content is represented by
\* the lower-cased content
GenerateEnhancedNodeId(content, node_type) == node_type \o "_" \o Lower(content)

\* _create_enhanced_hypernodes
create_enhanced_hypernodes(entities, file_path) ==
    [i \in 1..Len(entities) |->
        [id |-> GenerateEnhancedNodeId(entities[i].text, entities[i].entity_type),
         content |-> entities[i].text, node_type |-> entities[i].entity_type,
         confidence |-> entities[i].confidence, source |-> file_path,
         metadata |-> [extraction_source |-> entities[i].source],
         domain_specific_properties |-> entities[i].properties]]

\* node_lookup.get(key) answering with an id made from the key
NodeLookupWithoutNodes(hypernodes, key) == "concept_" \o key
\* node_lookup.get(key) of lines 1273-1277: the id of the last node with that
\* lower-cased content, "" standing for None
NodeLookup(hypernodes, key) ==
    LET hits == {i \in 1..Len(hypernodes) : Lower(hypernodes[i].content) = key}
    IN IF hits = {} THEN ""
       ELSE hypernodes[CHOOSE i \in hits : \A j \in hits : j <= i].id

\* _create_enhanced_hyperedges
create_enhanced_hyperedges(rels, hypernodes) ==
    LET source_id(rel) == NodeLookup(hypernodes, Lower(rel.source_entity))
        target_id(rel) == NodeLookup(hypernodes, Lower(rel.target_entity))
        linked == SelectSeq(rels, LAMBDA rel : source_id(rel) # "" /\ target_id(rel) # "")
    IN [k \in 1..Len(linked) |->
           [id |-> "edge_" \o source_id(linked[k]) \o "_" \o target_id(linked[k]) \o "_"
                   \o linked[k].relationship_type,
            source_node_id |-> source_id(linked[k]), target_node_id |-> target_id(linked[k]),
            edge_type |-> linked[k].relationship_type, confidence |-> linked[k].confidence,
            metadata |-> [extraction_source |-> linked[k].source,
                          relationship_strength |-> linked[k].confidence]]]

\* what the analyses handed to the builder may hold
CustomerNames == {"", "Jane Doe", "JANE DOE"}
FileEntityInputs ==
    {[text |-> "JANE DOE", type |-> "PERSON", confidence |-> 99],
     [text |-> "Jane Doe", type |-> "PERSON", confidence |-> 60]}
SkillInputLists == {<<>>, <<"Planning">>, <<"Planning", "PLANNING">>}
ThemeInputLists == {<<>>, <<"Wealth">>}
LifeThemeInputLists == {<<>>, <<"wealth">>, <<"WEALTH">>}

V2Init ==
    /\ IdleExcept("v2")
    /\ v2_pc = "extract_entities"
    /\ \E customer_name \in {"", "Jane Doe"}, file_customer_name \in CustomerNames,
          entities \in SeqsUpTo(FileEntityInputs, MaxFileEntities), skills \in SkillInputLists,
          main_themes \in ThemeInputLists, life_themes \in LifeThemeInputLists :
          analysis_data =
              [customer_name |-> customer_name, file_path |-> "notes.txt",
               file_analysis |-> [customer_name |-> file_customer_name, file_path |-> "notes.txt",
                                  entities |-> entities,
                                  key_insights |-> [skills_and_competencies |-> skills,
                                                    main_themes |-> main_themes]],
               needs_analysis |-> [life_themes |-> life_themes]]
    /\ all_entities = <<>>
    /\ relationships = <<>>
    /\ v2_hypernodes = <<>>
    /\ v2_hyperedges = <<>>

\* step 1 of build_enhanced_hypergraph
ExtractEntities ==
    /\ UNCHANGED notV2Vars
    /\ v2_pc = "extract_entities"
    /\ all_entities' = AllEntities(analysis_data)
    /\ v2_pc' = "extract_relationships"
    /\ UNCHANGED <<analysis_data, relationships, v2_hypernodes, v2_hyperedges>>

\* step 2
ExtractRelationships ==
    /\ UNCHANGED notV2Vars
    /\ v2_pc = "extract_relationships"
    /\ \E answers \in [Range(SemanticPairs(all_entities)) -> SemanticAnswers] :
          relationships' = extract_relationships(all_entities, answers)
    /\ v2_pc' = "create_hypernodes"
    /\ UNCHANGED <<analysis_data, all_entities, v2_hypernodes, v2_hyperedges>>

\* step 3
CreateEnhancedHypernodes ==
    /\ UNCHANGED notV2Vars
    /\ v2_pc = "create_hypernodes"
    /\ v2_hypernodes' = create_enhanced_hypernodes(all_entities, analysis_data.file_path)
    /\ v2_pc' = "create_hyperedges"
    /\ UNCHANGED <<analysis_data, all_entities, relationships, v2_hyperedges>>

\* step 4 and the return of the serialised lists
CreateEnhancedHyperedges ==
    /\ UNCHANGED notV2Vars
    /\ v2_pc = "create_hyperedges"
    /\ v2_hyperedges' = create_enhanced_hyperedges(relationships, v2_hypernodes)
    /\ v2_pc' = "returned"
    /\ UNCHANGED <<analysis_data, all_entities, relationships, v2_hypernodes>>

V2Next ==
    \/ ExtractEntities
    \/ ExtractRelationships
    \/ CreateEnhancedHypernodes
    \/ CreateEnhancedHyperedges

(***************************************************************************)
(* The helper methods of the V2 builder called on their own, on lists of   *)
(* entities and relationships that need not come from an analysis.         *)
(***************************************************************************)
EntityCallInputs ==
    {CleanEntity(text, entity_type, confidence, "file_analysis", [role |-> "mentioned"]) :
        text \in {"Ann", "ANN"}, entity_type \in {"person", "skill"}, confidence \in {70, 90}}
RelationshipCallInputs ==
    {[source_entity |-> a, target_entity |-> b, relationship_type |-> "relates_to",
      confidence |-> c, source |-> "llm_semantic"] :
        a \in {"Ann", "ANN"}, b \in {"Sql", "SQL"}, c \in {70, 90}}
    \cup {[source_entity |-> "Ann", target_entity |-> "Sql", relationship_type |-> "enables",
           confidence |-> c, source |-> "llm_semantic"] : c \in {70, 90}}
\* entities and relationships for _create_enhanced_hyperedges: "Zed" is the
\* text of no entity
EdgeCallEntities ==
    {CleanEntity(text, entity_type, 80, "file_analysis", [role |-> "mentioned"]) :
        text \in {"Ann", "SQL"}, entity_type \in {"person", "skill"}}
EdgeCallRelationships ==
    {[source_entity |-> a, target_entity |-> b, relationship_type |-> "uses",
      confidence |-> 80, source |-> "llm_semantic"] :
        a \in {"ANN", "Zed"}, b \in {"Sql", "Zed"}}

NotReturned == [done |-> FALSE]
Returned(value) == [done |-> TRUE, value |-> value]

FnInit ==
    /\ IdleExcept("fn")
    /\ \/ \E entities \in SeqsUpTo(EntityCallInputs, MaxDedup) :
             fn_call = [fn |-> "_deduplicate_entities", entities |-> entities]
       \/ \E rels \in SeqsUpTo(RelationshipCallInputs, MaxDedup) :
             fn_call = [fn |-> "_deduplicate_relationships", relationships |-> rels]
       \/ \E entities \in SeqsUpTo(EdgeCallEntities, MaxCallItems),
             rels \in SeqsUpTo(EdgeCallRelationships, MaxCallItems) :
             fn_call = [fn |-> "_create_enhanced_hyperedges", relationships |-> rels,
                        hypernodes |-> create_enhanced_hypernodes(entities, "notes.txt")]
    /\ fn_result = NotReturned

CallDeduplicateEntities ==
    /\ UNCHANGED notFnVars
    /\ fn_call.fn = "_deduplicate_entities" /\ ~fn_result.done
    /\ fn_result' = Returned(DeduplicateEntities(fn_call.entities))
    /\ UNCHANGED fn_call

CallDeduplicateRelationships ==
    /\ UNCHANGED notFnVars
    /\ fn_call.fn = "_deduplicate_relationships" /\ ~fn_result.done
    /\ fn_result' = Returned(DeduplicateRelationships(fn_call.relationships))
    /\ UNCHANGED fn_call

CallCreateEnhancedHyperedges ==
    /\ UNCHANGED notFnVars
    /\ fn_call.fn = "_create_enhanced_hyperedges" /\ ~fn_result.done
    /\ fn_result' = Returned(create_enhanced_hyperedges(fn_call.relationships, fn_call.hypernodes))
    /\ UNCHANGED fn_call

FnNext ==
    \/ CallDeduplicateEntities
    \/ CallDeduplicateRelationships
    \/ CallCreateEnhancedHyperedges

(***************************************************************************)
(* S3GraphStorage._build_s3_prefix called for two (customer_id,            *)
(* extraction_id) pairs.  An id is a sequence of characters.               *)
(***************************************************************************)
\* bound of the id model
MaxIdLen == 2
\* the [:50] of _sanitize_s3_key_component
key_component_limit == 50

IdChars == {"a", "_", " "}
\* [a-zA-Z0-9\-_.] among the characters of the ids
SafeChars == {"a", "e", "1", "2", "_", "-", "."}

RECURSIVE Str(_)
Str(chars) == IF chars = <<>> THEN "" ELSE Head(chars) \o Str(Tail(chars))

\* str.strip('_')
RECURSIVE StripUnderscores(_)
StripUnderscores(chars) ==
    IF chars = <<>> THEN <<>>
    ELSE IF Head(chars) = "_" THEN StripUnderscores(Tail(chars))
    ELSE IF chars[Len(chars)] = "_" THEN StripUnderscores(SubSeq(chars, 1, Len(chars) - 1))
    ELSE chars

\* _sanitize_s3_key_component
SanitizeS3KeyComponent(component) ==
    LET replaced == [i \in 1..Len(component) |->
                        IF component[i] \in SafeChars THEN component[i] ELSE "_"]
        sanitized == Take(StripUnderscores(replaced), key_component_limit)
    IN IF sanitized = <<>> THEN "unknown" ELSE Str(sanitized)

\* _build_s3_prefix
BuildS3Prefix(cust, extraction_id) ==
    "customer-graphs/" \o SanitizeS3KeyComponent(cust) \o "/extractions/"
        \o SanitizeS3KeyComponent(extraction_id)

\* customer ids that _validate_inputs accepts, and extraction ids
CustomerIdInputs == SeqsUpTo(IdChars, MaxIdLen) \ {<<>>}
ExtractionIdInputs == {<<"e", "1">>, <<"e", "2">>}

PrefixInit ==
    /\ IdleExcept("fn")
    /\ \E c1, c2 \in CustomerIdInputs, e1, e2 \in ExtractionIdInputs :
          fn_call = [fn |-> "_build_s3_prefix",
                     first |-> [customer_id |-> c1, extraction_id |-> e1],
                     second |-> [customer_id |-> c2, extraction_id |-> e2]]
    /\ fn_result = NotReturned

CallBuildS3Prefix ==
    /\ UNCHANGED notFnVars
    /\ fn_call.fn = "_build_s3_prefix" /\ ~fn_result.done
    /\ fn_result' = Returned(
          [first |-> BuildS3Prefix(fn_call.first.customer_id, fn_call.first.extraction_id),
           second |-> BuildS3Prefix(fn_call.second.customer_id, fn_call.second.extraction_id)])
    /\ UNCHANGED fn_call

PrefixNext == CallBuildS3Prefix

(***************************************************************************)
(* InterviewNeedsAnalyzer.combine_needs_scores                             *)
(* (needs_analysis_agent.py).  A score is a number in hundredths together  *)
(* with its Python type: analyze_needs_keywords produces floats,           *)
(* analyze_needs_with_llm produces Decimals.  A combined score is in       *)
(* thousandths: 0.3 * k + 0.7 * l is 3 * k + 7 * l.                        *)
(***************************************************************************)
MaxVaryingNeeds == 2
keyword_weight == 3
llm_weight == 7

HumanNeed == <<"certainty", "variety", "significance", "connection", "growth", "contribution">>

Float(v) == [kind |-> "float", v |-> v]
Decimal(v) == [kind |-> "Decimal", v |-> v]

\* dict.get(need, 0.0)
ScoreGet(scores, need) == IF need \in DOMAIN scores THEN scores[need] ELSE Float(0)

\* float * Decimal is not defined in Python: the product raises TypeError.
WeightRaises(score) == score.kind = "Decimal"

combine_needs_scores(keyword_scores, llm_scores) ==
    LET raises == \E i \in 1..Len(HumanNeed) :
                      \/ WeightRaises(ScoreGet(keyword_scores, HumanNeed[i]))
                      \/ WeightRaises(ScoreGet(llm_scores, HumanNeed[i]))
    IN IF raises
       THEN [raised |-> "TypeError", combined_scores |-> <<>>]
       ELSE [raised |-> "none",
             combined_scores |->
                 [need \in Range(HumanNeed) |->
                     keyword_weight * ScoreGet(keyword_scores, need).v
                         + llm_weight * ScoreGet(llm_scores, need).v]]

\* The needs whose scores vary in the inputs; the others have one value.
VaryingNeeds == {HumanNeed[i] : i \in 1..MaxVaryingNeeds}

\* analyze_needs_keywords: a float in [0, 1] for every need; and the
\* dictionaries with needs missing.
KeywordScoreInputs ==
    {[need \in Range(HumanNeed) |-> IF need \in VaryingNeeds THEN Float(f[need]) ELSE Float(0)] :
        f \in [VaryingNeeds -> {0, 40, 100}]}
    \cup {<<>>, [need \in {"growth"} |-> Float(100)]}

\* analyze_needs_with_llm: a Decimal in [0, 1] for every need; the same
\* scores as floats; and the empty dictionary.
LlmScoreInputs ==
    {[need \in Range(HumanNeed) |-> IF need \in VaryingNeeds THEN Decimal(f[need]) ELSE Decimal(30)] :
        f \in [VaryingNeeds -> {30, 50, 100}]}
    \cup {[need \in Range(HumanNeed) |-> IF need \in VaryingNeeds THEN Float(f[need]) ELSE Float(30)] :
        f \in [VaryingNeeds -> {30, 50, 100}]}
    \cup {<<>>, [need \in {"growth"} |-> Float(100)]}

CombineInit ==
    /\ IdleExcept("fn")
    /\ \E k \in KeywordScoreInputs, l \in LlmScoreInputs :
          fn_call = [fn |-> "combine_needs_scores", keyword_scores |-> k, llm_scores |-> l]
    /\ fn_result = NotReturned

CallCombineNeedsScores ==
    /\ UNCHANGED notFnVars
    /\ fn_call.fn = "combine_needs_scores" /\ ~fn_result.done
    /\ fn_result' = Returned(combine_needs_scores(fn_call.keyword_scores, fn_call.llm_scores))
    /\ UNCHANGED fn_call

CombineNext == CallCombineNeedsScores

(***************************************************************************)
(* enhanced_response_parser (needs_analysis_agent.py).  An LLM response is *)
(* represented by what the parser reads from it: either a JSON object with *)
(* its needs_scores member and its confidence_score member, or a text with *)
(* the first number that follows each need's name.  Scores are in          *)
(* hundredths.                                                             *)
(***************************************************************************)
MaxScores == 2
dominant_count == 3

all_needs == HumanNeed

\* a JSON string where a number is expected
JsonString == [kind |-> "str", v |-> 0]

\* get_content_aware_fallback_score
get_content_aware_fallback_score(need, content_type) ==
    CASE content_type = "financial_advice" ->
            (CASE need = "certainty" -> 80
               [] need = "growth" -> 60
               [] need \in {"significance", "contribution"} -> 50
               [] need = "connection" -> 40
               [] need = "variety" -> 30
               [] OTHER -> 40)
      [] content_type = "interview_transcript" ->
            (CASE need = "significance" -> 80
               [] need = "growth" -> 70
               [] need = "connection" -> 60
               [] need = "variety" -> 50
               [] OTHER -> 40)
      [] OTHER -> 40

\* extract_scores_from_text: the first number after each need's name, a
\* number above 1 divided by ten, then clamped to [0, 1]; in the order of
\* the needs.
RECURSIVE ScoresFromText(_, _)
ScoresFromText(mentions, i) ==
    IF i > Len(all_needs) THEN <<>>
    ELSE LET need == all_needs[i]
             score == mentions[need]
             scaled == IF score > 100 THEN score \div 10 ELSE score
             rest == ScoresFromText(mentions, i + 1)
         IN IF need \in DOMAIN mentions
            THEN <<<<need, Float(Min(Max(scaled, 0), 100))>>>> \o rest
            ELSE rest

extract_scores_from_text(mentions) == ScoresFromText(mentions, 1)

\* lines 1081-1085: every need without a score gets the fallback score
RECURSIVE EnsureAllNeeds(_, _, _)
EnsureAllNeeds(needs_scores, content_type, i) ==
    IF i > Len(all_needs) THEN needs_scores
    ELSE EnsureAllNeeds(
            IF DictHas(needs_scores, all_needs[i]) THEN needs_scores
            ELSE DictSet(needs_scores, all_needs[i],
                         Float(get_content_aware_fallback_score(all_needs[i], content_type))),
            content_type, i + 1)

\* sorted(items, key=score, reverse=True): a stable sort, equal scores keep
\* their order.
InsertSorted(sorted, item) ==
    LET before == SelectSeq(sorted, LAMBDA x : x[2].v >= item[2].v)
        after == SelectSeq(sorted, LAMBDA x : x[2].v < item[2].v)
    IN before \o <<item>> \o after

RECURSIVE SortedByScoreDescending(_)
SortedByScoreDescending(items) ==
    IF items = <<>> THEN <<>>
    ELSE InsertSorted(SortedByScoreDescending(SubSeq(items, 1, Len(items) - 1)),
                      items[Len(items)])

\* a comparison of a number with a string or an object raises TypeError
SortRaises(items) == \E i \in 1..Len(items) : items[i][2].kind # "float"

ParserRaised(error) == [raised |-> error, needs_scores |-> <<>>, dominant_needs |-> <<>>]

enhanced_response_parser(llm_response, content_type) ==
    LET is_json == llm_response.kind = "json"
        \* lines 1058 and 1068
        parsed_scores == IF is_json THEN llm_response.needs_scores
                         ELSE extract_scores_from_text(llm_response.mentions)
        needs_scores == EnsureAllNeeds(parsed_scores, content_type, 1)
    IN CASE is_json /\ llm_response.confidence_score = "string" ->
                \* line 1062: Decimal(str(...)) of a text that is no number
                ParserRaised("InvalidOperation")
         [] is_json /\ llm_response.scores_type \in {"array", "null"} ->
                \* lines 1083, 1085: membership test on None, item assignment on a list
                ParserRaised("TypeError")
         [] SortRaises(needs_scores) ->
                \* line 1089
                ParserRaised("TypeError")
         [] OTHER ->
                [raised |-> "none",
                 needs_scores |-> needs_scores,
                 dominant_needs |-> Take(SortedByScoreDescending(needs_scores), dominant_count)]

content_types == {"financial_advice", "interview_transcript", "unknown"}
JsonScoreKeys == {"certainty", "growth", "love"}
JsonScoreValues == {Float(90), Float(40), JsonString}
TextMentionNeeds == {"certainty", "growth"}

\* JSON objects: needs_scores an object of at most MaxScores members, an
\* array, null or absent; confidence_score a number or a string.
JsonResponses ==
    {[kind |-> "json", scores_type |-> "object", needs_scores |-> d, confidence_score |-> c] :
        d \in {s \in SeqsUpTo(JsonScoreKeys \X JsonScoreValues, MaxScores) :
                  \A i, j \in 1..Len(s) : i # j => s[i][1] # s[j][1]},
        c \in {"number", "string"}}
    \cup {[kind |-> "json", scores_type |-> t, needs_scores |-> <<>>, confidence_score |-> "number"] :
            t \in {"array", "null", "absent"}}

\* texts that are no JSON: a number after the names of some needs
TextResponses ==
    {[kind |-> "text", mentions |-> f] :
        f \in UNION {[ns -> {40, 80, 900}] : ns \in SUBSET TextMentionNeeds}}

ParserInit ==
    /\ IdleExcept("fn")
    /\ \E r \in JsonResponses \cup TextResponses, t \in content_types :
          fn_call = [fn |-> "enhanced_response_parser", llm_response |-> r, content_type |-> t]
    /\ fn_result = NotReturned

CallEnhancedResponseParser ==
    /\ UNCHANGED notFnVars
    /\ fn_call.fn = "enhanced_response_parser" /\ ~fn_result.done
    /\ fn_result' = Returned(enhanced_response_parser(fn_call.llm_response, fn_call.content_type))
    /\ UNCHANGED fn_call

ParserNext == CallEnhancedResponseParser

(***************************************************************************)
(* FileAnalyzer.determine_required_agents (enhanced_file_analyzer.py).     *)
(* A content is the sequence of its words, content.split().                *)
(***************************************************************************)
MaxExtraWords == 2
nlp_word_limit == 50

\* len(content.split()) >= 50
LongContentInclusive(content) == Len(content) >= nlp_word_limit
\* line 107: len(content.split()) > 50
LongContent(content) == Len(content) > nlp_word_limit

\* metadata.get('content_type')
ContentTypeOf(metadata) ==
    IF "content_type" \in DOMAIN metadata THEN metadata["content_type"] ELSE "None"

determine_required_agents(content, metadata) ==
    <<"interview_processing">>
        \o (IF LongContent(content) THEN <<"nlp_processing">> ELSE <<>>)
        \o (IF ContentTypeOf(metadata) = "interview_transcript" THEN <<"needs_analysis">> ELSE <<>>)
        \o <<"hypergraph_builder">>

ContentInputs == {[i \in 1..n |-> "word"] : n \in 0..(nlp_word_limit + MaxExtraWords)}
MetadataInputs ==
    {<<>>} \cup {[k \in {"content_type"} |-> t] :
                    t \in {"interview_transcript", "financial_advice", "Interview_Transcript"}}

AgentsInit ==
    /\ IdleExcept("fn")
    /\ \E c \in ContentInputs, md \in MetadataInputs :
          fn_call = [fn |-> "determine_required_agents", content |-> c, metadata |-> md]
    /\ fn_result = NotReturned

CallDetermineRequiredAgents ==
    /\ UNCHANGED notFnVars
    /\ fn_call.fn = "determine_required_agents" /\ ~fn_result.done
    /\ fn_result' = Returned(determine_required_agents(fn_call.content, fn_call.metadata))
    /\ UNCHANGED fn_call

AgentsNext == CallDetermineRequiredAgents

(***************************************************************************)
(* EnhancedHypergraphBuilderV2._calculate_quality_score.  Confidences are  *)
(* in hundredths and the weights in tenths; the score is the exact         *)
(* fraction num / den.                                                     *)
(***************************************************************************)
MaxQualityItems == 2
max_node_types == 6
max_edge_types == 5
confidence_weight == 3
diversity_weight == 2

\* len(set(item.<type>.value for item in items))
DistinctTypes(items, field) == Cardinality({items[i][field] : i \in 1..Len(items)})

\* the type count without the cap
UncappedDiversity(types, max_types) == types
\* lines 1368 and 1372: min(types / max_types, 1.0), as a count out of max_types
CappedDiversity(types, max_types) == Min(types, max_types)

calculate_quality_score(nodes, edges) ==
    IF nodes = <<>> THEN [num |-> 0, den |-> 1]
    ELSE LET n == Len(nodes)
             \* avg_edge_confidence is 0.0 without edges: a sum of 0 over 1
             e == IF edges = <<>> THEN 1 ELSE Len(edges)
             types == max_node_types * max_edge_types
             entity_types == CappedDiversity(DistinctTypes(nodes, "node_type"), max_node_types)
             relationship_types ==
                 IF edges = <<>> THEN 0
                 ELSE CappedDiversity(DistinctTypes(edges, "edge_type"), max_edge_types)
         IN [num |-> confidence_weight * SumConfidence(nodes) * e * types
                       + confidence_weight * SumConfidence(edges) * n * types
                       + diversity_weight * 100 * n * e * entity_types * max_edge_types
                       + diversity_weight * 100 * n * e * relationship_types * max_node_types,
             den |-> 10 * 100 * n * e * types]

QualityNode(t, c) == [node_type |-> t, confidence |-> c]
QualityEdge(t, c) == [edge_type |-> t, confidence |-> c]

\* node lists of at most MaxQualityItems nodes, and one of seven types
QualityNodeInputs ==
    SeqsUpTo({QualityNode(t, c) : t \in {"person", "skill"}, c \in {0, 50, 100}}, MaxQualityItems)
    \cup {<<QualityNode("person", 100), QualityNode("organization", 100),
            QualityNode("concept", 100), QualityNode("skill", 100),
            QualityNode("need", 100), QualityNode("topic", 100),
            QualityNode("business_concept", 100)>>}

\* edge lists of at most MaxQualityItems edges, and one of six types
QualityEdgeInputs ==
    SeqsUpTo({QualityEdge(t, c) : t \in {"uses", "relates_to"}, c \in {40, 100}}, MaxQualityItems)
    \cup {<<QualityEdge("demonstrates", 100), QualityEdge("relates_to", 100),
            QualityEdge("influences", 100), QualityEdge("requires", 100),
            QualityEdge("works_with", 100), QualityEdge("uses", 100)>>}

QualityInit ==
    /\ IdleExcept("fn")
    /\ \E ns \in QualityNodeInputs, es \in QualityEdgeInputs :
          fn_call = [fn |-> "_calculate_quality_score", nodes |-> ns, edges |-> es]
    /\ fn_result = NotReturned

CallCalculateQualityScore ==
    /\ UNCHANGED notFnVars
    /\ fn_call.fn = "_calculate_quality_score" /\ ~fn_result.done
    /\ fn_result' = Returned(calculate_quality_score(fn_call.nodes, fn_call.edges))
    /\ UNCHANGED fn_call

QualityNext == CallCalculateQualityScore

(***************************************************************************)
(* neptune_query_proxy.py: query_customer_nodes and query_customer_edges.  *)
(* The graph g is a list of vertices and a list of edges in the order the  *)
(* traversal visits them.  The Gremlin steps are modelled by their         *)
(* TinkerPop semantics: has() filters on a property value, outE() follows  *)
(* the outgoing edges of each vertex, limit(n) is range(0, n), where a     *)
(* high end of -1 means no upper end and a lower one is rejected.          *)
(***************************************************************************)
MaxVertices == 3
default_limit == 100

Vertex(i, c) == [id |-> i, customer_id |-> c]

\* g.V().has('customer_id', customer_id)
HasCustomer(g, customer) == SelectSeq(g.V, LAMBDA v : v.customer_id = customer)

\* __.inV().has('customer_id', customer_id)
InVHasCustomer(g, edge, customer) ==
    \E i \in 1..Len(g.V) : g.V[i].id = edge.inV /\ g.V[i].customer_id = customer

\* .outE(): the outgoing edges of each vertex, vertex by vertex
RECURSIVE OutE(_, _)
OutE(g, vertices) ==
    IF vertices = <<>> THEN <<>>
    ELSE SelectSeq(g.E, LAMBDA e : e.outV = Head(vertices).id) \o OutE(g, Tail(vertices))

\* .limit(limit)
LimitRaises(limit) == limit < -1
Limit(items, limit) == IF limit = -1 THEN items ELSE Take(items, limit)

QueryRaised(message) == [raised |-> message, data |-> <<>>, count |-> 0]

query_customer_nodes(g, customer, limit) ==
    IF LimitRaises(limit) THEN QueryRaised("Failed to query nodes")
    ELSE LET vertices == Limit(HasCustomer(g, customer), limit)
         IN [raised |-> "none",
             data |-> [i \in 1..Len(vertices) |->
                         [id |-> vertices[i].id, customer_id |-> vertices[i].customer_id]],
             count |-> Len(vertices)]

\* the where() step without its customer filter
EdgesOfCustomerAnyTarget(g, customer) == OutE(g, HasCustomer(g, customer))
\* lines 147-149
EdgesOfCustomer(g, customer) ==
    SelectSeq(OutE(g, HasCustomer(g, customer)), LAMBDA e : InVHasCustomer(g, e, customer))

query_customer_edges(g, customer, limit) ==
    IF LimitRaises(limit) THEN QueryRaised("Failed to query edges")
    ELSE LET edge_results == Limit(EdgesOfCustomer(g, customer), limit)
         IN [raised |-> "none",
             data |-> [i \in 1..Len(edge_results) |->
                         [id |-> edge_results[i].id,
                          source |-> edge_results[i].outV,
                          target |-> edge_results[i].inV]],
             count |-> Len(edge_results)]

\* the customers of the stored graphs
GraphCustomers == {"acme", "globex"}

\* an edge between every two neighbouring vertices, in both directions, and
\* one from the last vertex to the first
RingEdges(n) ==
    LET pairs == SelectSeq(AllPairs(n), LAMBDA p : p[2] = p[1] + 1)
        forward == [i \in 1..Len(pairs) |->
                       [id |-> 10 * pairs[i][1] + pairs[i][2], outV |-> pairs[i][1], inV |-> pairs[i][2]]]
        backward == [i \in 1..Len(pairs) |->
                       [id |-> 10 * pairs[i][2] + pairs[i][1], outV |-> pairs[i][2], inV |-> pairs[i][1]]]
    IN forward \o backward
         \o (IF n > 2 THEN <<[id |-> 10 * n + 1, outV |-> n, inV |-> 1]>> ELSE <<>>)

GraphInputs ==
    {[V |-> [i \in 1..n |-> Vertex(i, cs[i])], E |-> RingEdges(n)] :
        n \in 0..MaxVertices, cs \in [1..MaxVertices -> GraphCustomers]}

\* the request's limit is passed on as received
LimitInputs == {-2, -1, 0, 1, 2, default_limit}

QueryInit ==
    /\ IdleExcept("fn")
    /\ \E g \in GraphInputs, c \in GraphCustomers, limit \in LimitInputs,
          query_type \in {"query_customer_nodes", "query_customer_edges"} :
          fn_call = [fn |-> query_type, g |-> g, customer_id |-> c, limit |-> limit]
    /\ fn_result = NotReturned

QueryCustomerNodes ==
    /\ UNCHANGED notFnVars
    /\ fn_call.fn = "query_customer_nodes" /\ ~fn_result.done
    /\ fn_result' = Returned(query_customer_nodes(fn_call.g, fn_call.customer_id, fn_call.limit))
    /\ UNCHANGED fn_call

QueryCustomerEdges ==
    /\ UNCHANGED notFnVars
    /\ fn_call.fn = "query_customer_edges" /\ ~fn_result.done
    /\ fn_result' = Returned(query_customer_edges(fn_call.g, fn_call.customer_id, fn_call.limit))
    /\ UNCHANGED fn_call

QueryNext == QueryCustomerNodes \/ QueryCustomerEdges

(***************************************************************************)
(* Hypergraph data whose hyperedges name its hypernodes: every hypernode   *)
(* carries the id its builder gave it, and every hyperedge's endpoints are *)
(* ids of hypernodes of the same data.                                     *)
(***************************************************************************)
LinkedHypernodeInputs ==
    {[id |-> "person_a1", content |-> "ann", node_type |-> "person", confidence |-> Num(40)],
     [id |-> "skill_b2", content |-> "sql", node_type |-> "skill", confidence |-> Num(90)],
     [id |-> "skill_c3", content |-> "go", node_type |-> "skill", confidence |-> NotNum],
     \* an id that is the one _generate_node_id computes
     [id |-> "node_c1:need:growth", content |-> "growth", node_type |-> "need", confidence |-> Num(70)]}

HypernodeIds(hypernodes) == {Get(hypernodes[i], "id", "") : i \in 1..Len(hypernodes)}

LinkedHyperedges(hypernodes) ==
    {[source_node_id |-> s, target_node_id |-> t, edge_type |-> "demonstrates", confidence |-> Num(70)] :
        s \in HypernodeIds(hypernodes), t \in HypernodeIds(hypernodes)}

LinkedInit ==
    /\ IdleExcept("parse")
    /\ \E ns \in SeqsUpTo(LinkedHypernodeInputs, MaxNodes) :
          /\ ns # <<>>
          /\ \A i, j \in 1..Len(ns) : i # j => ns[i].id # ns[j].id
          /\ \E es \in SeqsUpTo(LinkedHyperedges(ns), MaxEdges) :
                hypergraph_data = [hypernodes |-> ns, hyperedges |-> es]
    /\ clock = 1
    /\ runs = <<>>

(***************************************************************************)
(* S3GraphStorage._update_customer_manifest, called by several runs of     *)
(* store_graph_data for one customer.  Each call reads the manifest        *)
(* object, appends its entry to its own copy and writes the copy back;     *)
(* between the read and the write other calls may run.  An entry is        *)
(* modelled by its extraction_id and prefix.                               *)
(***************************************************************************)
MaxCalls == 3

Extractions(object) == IF object.kind = "absent" THEN <<>> ELSE object.extractions

\* lines 809-813
extraction_entry(extraction_id) ==
    [extraction_id |-> extraction_id,
     prefix |-> "customer-graphs/c1/extractions/" \o extraction_id]

\* the update keeping only the new entry
ReplaceExtractions(extractions, entry) == <<entry>>
\* line 814: customer_manifest['extractions'].append(extraction_entry)
AppendExtraction(extractions, entry) == Append(extractions, entry)

\* the extraction_id of the i-th call
CallExtractionId(i) == "e" \o ToString(i)

ManifestInit ==
    /\ IdleExcept("manifest")
    /\ \E prior \in SeqsUpTo({extraction_entry("e0")}, MaxPrior) :
          /\ m_prior = prior
          /\ m_object = IF prior = <<>> THEN Absent ELSE ManifestObj(prior)
    /\ m_calls = <<>>

NewCall(i) ==
    [extraction_id |-> CallExtractionId(i), pc |-> "get", read |-> <<>>,
     customer_manifest |-> <<>>, ok |-> TRUE]

\* store_graph_data reaches line 672 while no other run is inside the update
BeginUpdateAfterOthers ==
    /\ UNCHANGED notManifestVars
    /\ Len(m_calls) < MaxCalls
    /\ \A i \in 1..Len(m_calls) : m_calls[i].pc = "done"
    /\ m_calls' = Append(m_calls, NewCall(Len(m_calls) + 1))
    /\ UNCHANGED <<m_object, m_prior>>

\* store_graph_data reaches line 672, whatever the other runs are doing
BeginUpdate ==
    /\ UNCHANGED notManifestVars
    /\ Len(m_calls) < MaxCalls
    /\ m_calls' = Append(m_calls, NewCall(Len(m_calls) + 1))
    /\ UNCHANGED <<m_object, m_prior>>

\* lines 794-815: get_object; NoSuchKey creates a manifest with an empty
\* list; the entry is appended to the copy.  Any other error ends the update
\* (line 820: logged, not raised).
ManifestGet ==
    /\ UNCHANGED notManifestVars
    /\ \E i \in 1..Len(m_calls), outcome \in {"ok", "ClientError"} :
          /\ m_calls[i].pc = "get"
          /\ m_calls' = [m_calls EXCEPT ![i] =
                IF outcome = "ok"
                THEN [m_calls[i] EXCEPT
                         !.pc = "put",
                         !.read = Extractions(m_object),
                         !.customer_manifest =
                             AppendExtraction(Extractions(m_object),
                                              extraction_entry(m_calls[i].extraction_id))]
                ELSE [m_calls[i] EXCEPT !.pc = "done", !.ok = FALSE]]
    /\ UNCHANGED <<m_object, m_prior>>

\* line 818: _store_json_with_retry writes the copy, or fails after its
\* retries (line 820: logged, not raised)
ManifestPut ==
    /\ UNCHANGED notManifestVars
    /\ \E i \in 1..Len(m_calls), outcome \in {"ok", "S3StorageError"} :
          /\ m_calls[i].pc = "put"
          /\ m_object' = IF outcome = "ok" THEN ManifestObj(m_calls[i].customer_manifest)
                         ELSE m_object
          /\ m_calls' = [m_calls EXCEPT ![i] =
                [m_calls[i] EXCEPT !.pc = "done", !.ok = (outcome = "ok")]]
    /\ UNCHANGED m_prior

SequentialNext == BeginUpdateAfterOthers \/ ManifestGet \/ ManifestPut
ConcurrentNext == BeginUpdate \/ ManifestGet \/ ManifestPut

(***************************************************************************)
(* graph_extraction_agent.lambda_handler, GraphExtractor.extract_graph_data *)
(* and ErrorCategorizer.  An event carries the customer id at its top      *)
(* level and in agent_spec.processing_config, a source file and the        *)
(* hypergraph builder's result.  An exception is a record of its class,    *)
(* its S3 error code and its message; a message is a sequence of           *)
(* fragments, cut so that every keyword categorize_error searches for is   *)
(* a whole fragment wherever it occurs in the message.                     *)
(***************************************************************************)
Exception(type, m) == [type |-> type, code |-> "", message |-> m, category |-> "none"]

\* str.lower() of a message
LowerMessage(m) ==
    [i \in DOMAIN m |->
        CASE m[i] = "VALIDATION" -> "validation"
          [] m[i] = "Required" -> "required"
          [] m[i] = "Access Denied" -> "access denied"
          [] m[i] = "Throttl" -> "throttl"
          [] m[i] = "PARSING" -> "parsing"
          [] m[i] = "INTERNAL" -> "internal"
          [] OTHER -> m[i]]

\* `keyword in error_str`
In(keyword, error_str) == \E i \in DOMAIN error_str : error_str[i] = keyword

\* ErrorCategorizer.categorize_error
categorize_error(error) ==
    LET error_str == LowerMessage(error.message) IN
    CASE error.type = "GraphExtractionError" ->
            IF In("validation", error_str) \/ In("required", error_str) THEN "VALIDATION_ERROR"
            ELSE IF In("parse", error_str) \/ In("format", error_str) THEN "PARSING_ERROR"
            ELSE "INTERNAL_ERROR"
      [] error.type = "S3StorageError" ->
            IF In("access denied", error_str) \/ In("forbidden", error_str)
            THEN "S3_PERMISSION_ERROR"
            ELSE IF In("timeout", error_str) \/ In("throttl", error_str)
                    \/ In("service unavailable", error_str)
            THEN "S3_TRANSIENT_ERROR"
            ELSE "S3_STORAGE_ERROR"
      [] error.type \in {"ClientError", "BotoCoreError"} ->
            IF error.code \in {"AccessDenied", "Forbidden"} THEN "S3_PERMISSION_ERROR"
            ELSE IF error.code \in {"ServiceUnavailable", "Throttling", "RequestTimeout"}
            THEN "S3_TRANSIENT_ERROR"
            ELSE "S3_STORAGE_ERROR"
      [] OTHER -> "INTERNAL_ERROR"

\* ErrorCategorizer.ERROR_CATEGORIES[category]['retry']
RetryOf(category) == category \in {"S3_TRANSIENT_ERROR", "S3_STORAGE_ERROR"}

\* SensitiveDataSanitizer.sanitize_message: the credentials pattern matches
\* "key" followed by a word, as in the text of a NoSuchKey error
sanitize_message(m) ==
    [i \in DOMAIN m |-> IF m[i] = "key does" THEN "[REDACTED]" ELSE m[i]]

\* str.replace('/', '') on the customer folders of the events
RemoveSlashes(s) ==
    CASE s = "c1/" -> "c1"
      [] s = "/" -> ""
      [] OTHER -> s

NoAgentSpec == [kind |-> "absent", customer_id |-> "", customer_folder |-> ""]
NoneAgentSpec == [kind |-> "None", customer_id |-> "", customer_folder |-> ""]
AgentSpec(c, f) == [kind |-> "dict", customer_id |-> c, customer_folder |-> f]

\* event.get('agent_spec', {}).get('processing_config', {}) fails on a None
AgentSpecRaises(e) == e.agent_spec.kind = "None"

\* _extract_customer_id, where it returns
ExtractCustomerId(e) ==
    IF e.customer_id # "" THEN e.customer_id
    ELSE IF e.agent_spec.customer_id # "" THEN e.agent_spec.customer_id
    ELSE IF RemoveSlashes(e.agent_spec.customer_folder) # ""
         THEN RemoveSlashes(e.agent_spec.customer_folder)
    ELSE "unknown_customer"

\* the dict _extract_hypergraph_data returns: the hypergraph found in
\* event['result'], or {} ("empty")
EmptyDict == [kind |-> "empty", nodes |-> 0, edges |-> 0]
ExtractHypergraphData(e) ==
    IF e.result.kind \in {"hypergraph", "malformed"} THEN e.result ELSE EmptyDict

\* _validate_inputs that accepts the placeholder customer id
ValidateInputsAcceptingUnknown(cust, data) ==
    IF cust = ""
    THEN Exception("GraphExtractionError", <<"Valid customer_id is ", "required">>)
    ELSE IF data.kind = "empty"
    THEN Exception("GraphExtractionError", <<"Hypergraph data is ", "required">>)
    ELSE NoError

\* _validate_inputs: the GraphExtractionError it raises, or NoError
ValidateInputs(cust, data) ==
    IF cust = "" \/ cust = "unknown_customer"
    THEN Exception("GraphExtractionError", <<"Valid customer_id is ", "required">>)
    ELSE IF data.kind = "empty"
    THEN Exception("GraphExtractionError", <<"Hypergraph data is ", "required">>)
    ELSE NoError

\* what goes wrong in the try block of extract_graph_data before the store
\* (lines 900-913), or NoError
FailureBeforeStore(e) ==
    IF (e.customer_id = "" \/ e.source_file = "") /\ AgentSpecRaises(e)
    THEN Exception("AttributeError", <<"'NoneType' object has no attribute 'get'">>)
    ELSE IF ValidateInputs(ExtractCustomerId(e), ExtractHypergraphData(e)) # NoError
    THEN ValidateInputs(ExtractCustomerId(e), ExtractHypergraphData(e))
    ELSE IF ExtractHypergraphData(e).kind = "malformed"
    THEN Exception("ValueError", <<"Failed to ", "parse", " hypergraph data: ",
                                   "object of type 'int' has no len()">>)
    ELSE NoError

\* str(e) of the botocore error of a failed S3 call
ErrorDetails ==
    {<<"An error occurred (AccessDenied) when calling the PutObject operation: ",
       "Access Denied">>,
     <<"An error occurred (", "Throttl", "ing) when calling the PutObject operation: Rate exceeded">>,
     <<"An error occurred (KMS.NotFoundException) when calling the PutObject operation: ",
       "key does", " not exist">>}

\* the S3StorageError store_graph_data raised (line 694), from where it failed
StorageError(detail) ==
    Exception("S3StorageError", <<"S3 storage failed: ">> \o sanitize_message(
        CASE validation = "empty" -> <<"Stored file ", s3_prefix, " is empty">>
          [] validation = "NoSuchKey" -> <<"Required", " file ", s3_prefix, " was not stored">>
          [] validation = "ClientError" -> <<"Failed to validate ", s3_prefix, ": ">> \o detail
          [] validation = "corrupted" -> <<"Stored JSON files are corrupted: ">>
          [] OTHER -> <<"Failed to store ", s3_prefix, " after 3 attempts: ">> \o detail))

\* except Exception of extract_graph_data (lines 952-964): the
\* GraphExtractionError raised in place of `e`, with the category logged
CategoryFragments(category) ==
    CASE category = "VALIDATION_ERROR" -> <<"VALIDATION", "_ERROR">>
      [] category = "PARSING_ERROR" -> <<"PARSING", "_ERROR">>
      [] category = "INTERNAL_ERROR" -> <<"INTERNAL", "_ERROR">>
      [] category = "S3_TRANSIENT_ERROR" -> <<"S3_", "TRANSIENT", "_ERROR">>
      [] category = "S3_PERMISSION_ERROR" -> <<"S3_", "PERMISSION", "_ERROR">>
      [] OTHER -> <<"S3_", "STORAGE", "_ERROR">>

Reraise(e) ==
    [type |-> "GraphExtractionError", code |-> "",
     message |-> <<"Failed to extract graph data (">> \o CategoryFragments(categorize_error(e))
                  \o <<"): ">> \o sanitize_message(e.message),
     category |-> categorize_error(e)]

\* status_code of lambda_handler's error response with VALIDATION_ERROR only
StatusCodeValidationOnly(error_category) ==
    IF error_category = "VALIDATION_ERROR" THEN 400 ELSE 500

\* status_code of lambda_handler's error response (line 1226)
StatusCode(error_category) ==
    IF error_category \in {"VALIDATION_ERROR", "PARSING_ERROR"} THEN 400 ELSE 500

\* events: every combination of the customer id fields and results with a
\* source file, and those without one where agent_spec is None
ExtractEvents ==
    LET results == {[kind |-> "absent", nodes |-> 0, edges |-> 0],
                    [kind |-> "unrecognized", nodes |-> 0, edges |-> 0],
                    [kind |-> "malformed", nodes |-> 0, edges |-> 0],
                    [kind |-> "hypergraph", nodes |-> 1, edges |-> 1]}
        ids == {"", "c1", "unknown_customer"}
    IN  [customer_id : ids, source_file : {"interview.txt"},
         agent_spec : {NoAgentSpec, NoneAgentSpec, AgentSpec("c1", ""),
                       AgentSpec("", "/"), AgentSpec("", "c1/")},
         result : results]
        \cup [customer_id : ids, source_file : {""}, agent_spec : {NoneAgentSpec},
              result : results]

ExtractInit ==
    /\ ParseIdle /\ V1Idle /\ V2Idle /\ FnIdle /\ ManifestIdle
    /\ pc = "idle"
    /\ file_idx = 1
    /\ attempt = 0
    /\ trace = <<>>
    /\ s3_prefix = ""
    /\ bucket = [k \in Keys |-> IF k = customer_manifest_key THEN ManifestObj(<<"e0">>)
                                 ELSE Absent]
    /\ retry_result = [k \in Keys |-> NoResult]
    /\ store_result = NoResult
    /\ last_error = NoResult
    /\ extraction = <<>>
    /\ customer_manifest = Absent
    /\ validation = NoResult
    /\ x_pc = "invoked"
    /\ event \in ExtractEvents
    /\ x_error = NoError
    /\ response = NoResponse

\* extract_graph_data, lines 898-941: up to the call of store_graph_data
ExtractGraphData ==
    /\ UNCHANGED notExtractVars
    /\ x_pc = "invoked"
    /\ IF FailureBeforeStore(event) # NoError
       THEN /\ x_error' = Reraise(FailureBeforeStore(event))
            /\ x_pc' = "raised"
            /\ UNCHANGED storeVars
       ELSE /\ x_pc' = "storing"
            /\ pc' = "store_files"
            /\ s3_prefix' = "customer-graphs/" \o ExtractCustomerId(event) \o "/extractions/e1"
            /\ extraction' = [extraction_id |-> "e1", customer_id |-> ExtractCustomerId(event),
                              total_nodes |-> event.result.nodes,
                              total_edges |-> event.result.edges]
            /\ UNCHANGED <<x_error, file_idx, attempt, trace, bucket, retry_result,
                           store_result, last_error, customer_manifest, validation>>
    /\ UNCHANGED <<event, response>>

\* extract_graph_data, lines 942-964: store_graph_data returned or raised
ExtractGraphDataStored ==
    /\ UNCHANGED notExtractVars
    /\ UNCHANGED storeVars
    /\ x_pc = "storing"
    /\ pc \in {"returned", "raised"}
    /\ IF pc = "returned"
       THEN x_pc' = "returned" /\ x_error' = x_error
       ELSE /\ x_pc' = "raised"
            /\ \E detail \in ErrorDetails : x_error' = Reraise(StorageError(detail))
    /\ UNCHANGED <<event, response>>

\* lambda_handler, lines 1198-1256: the response for what extract_graph_data did
LambdaHandler ==
    /\ UNCHANGED notExtractVars
    /\ UNCHANGED storeVars
    /\ x_pc \in {"returned", "raised"}
    /\ x_pc' = "responded"
    /\ response' =
          IF x_pc = "returned"
          THEN [statusCode |-> 200, success |-> TRUE, error_category |-> "none",
                retry |-> FALSE]
          ELSE IF x_error.type = "GraphExtractionError"
          THEN [statusCode |-> StatusCode(categorize_error(x_error)), success |-> FALSE,
                error_category |-> categorize_error(x_error),
                retry |-> RetryOf(categorize_error(x_error))]
          ELSE [statusCode |-> 500, success |-> FALSE,
                error_category |-> categorize_error(x_error),
                retry |-> RetryOf(categorize_error(x_error))]
    /\ UNCHANGED <<event, x_error>>

ExtractNext ==
    \/ ExtractGraphData
    \/ StoreFile
    \/ UpdateCustomerManifestGet
    \/ UpdateCustomerManifestPut
    \/ ValidateHead
    \/ ValidateCounts
    \/ ExtractGraphDataStored
    \/ LambdaHandler

(***************************************************************************)
(* lambda_handler of enhanced_hypergraph_builder_agent_v2.py.  An event    *)
(* carries the analyses either under agent_spec.processing_config or at    *)
(* its top level.                                                          *)
(***************************************************************************)
\* the events: the analyses of V2Init, with and without 'agent_spec'
HandlerEvents ==
    {[has_agent_spec |-> a,
      data |-> [customer_name |-> customer_name, file_path |-> "notes.txt",
                file_analysis |-> [customer_name |-> file_customer_name,
                                   file_path |-> "notes.txt", entities |-> entities,
                                   key_insights |-> [skills_and_competencies |-> skills,
                                                     main_themes |-> <<>>]],
                needs_analysis |-> [life_themes |-> life_themes]]] :
        a \in BOOLEAN, customer_name \in {"", "Jane Doe"}, file_customer_name \in CustomerNames,
        entities \in SeqsUpTo(FileEntityInputs, MaxFileEntities), skills \in SkillInputLists,
        life_themes \in LifeThemeInputLists}

HandlerInit ==
    /\ StoreIdle /\ ParseIdle /\ V1Idle /\ V2Idle /\ ManifestIdle /\ ExtractIdle
    /\ \E e \in HandlerEvents : fn_call = [fn |-> "lambda_handler", event |-> e]
    /\ fn_result = NotReturned

\* lambda_handler, lines 1417-1457: up to the call of build_enhanced_hypergraph.
\* `processing_config` is assigned only in the 'agent_spec' branch (line
\* 1436); line 1452 reads it in both, which without 'agent_spec' raises
\* UnboundLocalError, caught by the except clause of line 1469
BuilderLambdaHandler ==
    /\ UNCHANGED <<storeVars, parseVars, v1Vars, manifestVars, extractVars>>
    /\ fn_call.fn = "lambda_handler"
    /\ v2_pc = "idle"
    /\ ~fn_result.done
    /\ IF fn_call.event.has_agent_spec
       THEN /\ analysis_data' = fn_call.event.data
            /\ v2_pc' = "extract_entities"
            /\ fn_result' = fn_result
       ELSE /\ fn_result' = Returned([statusCode |-> 500, success |-> FALSE])
            /\ UNCHANGED <<analysis_data, v2_pc>>
    /\ UNCHANGED <<fn_call, all_entities, relationships, v2_hypernodes, v2_hyperedges>>

\* lambda_handler, lines 1459-1467: the response for the hypergraph built
BuilderLambdaHandlerReturn ==
    /\ UNCHANGED <<storeVars, parseVars, v1Vars, manifestVars, extractVars>>
    /\ UNCHANGED v2Vars
    /\ fn_call.fn = "lambda_handler"
    /\ v2_pc = "returned"
    /\ ~fn_result.done
    /\ fn_result' = Returned([statusCode |-> 200, success |-> TRUE])
    /\ fn_call' = fn_call

HandlerNext ==
    \/ BuilderLambdaHandler
    \/ ExtractEntities
    \/ ExtractRelationships
    \/ CreateEnhancedHypernodes
    \/ CreateEnhancedHyperedges
    \/ BuilderLambdaHandlerReturn

(***************************************************************************)
(* The two _is_interview_format methods of                                 *)
(* enhanced_hypergraph_builder_agent_v2.py.  A file path and a raw text    *)
(* are sequences of fragments, cut so that every indicator and dialog      *)
(* pattern is a whole fragment wherever it occurs.                         *)
(***************************************************************************)
MaxFragments == 2

interview_indicators == {"interview", "transcript", "dialog", "conversation"}
dialog_patterns == {"interviewer:", "interviewee:", "q:", "a:", "host:", "guest:"}

\* str.lower() of a text
LowerText(t) == [i \in DOMAIN t |-> Lower(t[i])]

\* any(pattern in text for pattern in patterns)
AnyIn(patterns, t) == \E i \in DOMAIN t : t[i] \in patterns

\* CleanEntityExtractor._is_interview_format; raw_text is <<>> where the
\* file analysis has none
EntityIsInterviewFormat(file_analysis, file_path) ==
    IF AnyIn(interview_indicators, LowerText(file_path)) THEN TRUE
    ELSE IF file_analysis.raw_text # <<>>
            /\ AnyIn(dialog_patterns, LowerText(file_analysis.raw_text)) THEN TRUE
    ELSE FALSE

\* CleanRelationshipExtractor._is_interview_format
RelationshipIsInterviewFormat(file_analysis, file_path) ==
    AnyIn(interview_indicators, LowerText(file_path))

PathFragments == {"notes", ".txt", "Interview", "transcript", "dialog"}
TextFragments == {"We met on Monday. ", "Q:", "Host:", "guest:"}

InterviewInit ==
    /\ IdleExcept("fn")
    /\ \E file_path \in SeqsUpTo(PathFragments, MaxFragments),
          raw_text \in SeqsUpTo(TextFragments, MaxFragments) :
          fn_call = [fn |-> "_is_interview_format",
                     file_analysis |-> [raw_text |-> raw_text], file_path |-> file_path]
    /\ fn_result = NotReturned

\* both methods called with the same arguments
CallIsInterviewFormat ==
    /\ UNCHANGED notFnVars
    /\ fn_call.fn = "_is_interview_format"
    /\ ~fn_result.done
    /\ fn_result' = Returned(
          [entity_extractor |-> EntityIsInterviewFormat(fn_call.file_analysis, fn_call.file_path),
           relationship_extractor |->
               RelationshipIsInterviewFormat(fn_call.file_analysis, fn_call.file_path)])
    /\ fn_call' = fn_call

InterviewNext == CallIsInterviewFormat

(***************************************************************************)
(* graph_insights.most_common_relationship of                              *)
(* EnhancedHypergraphBuilderV2._generate_graph_insights                    *)
(***************************************************************************)
MaxInsightEdges == 3

\* the values of EdgeType in the order of Python's string comparison
EdgeTypeValuesInOrder ==
    <<"affiliated_with", "demonstrates", "discusses", "enables", "influences", "interviews",
      "part_of", "relates_to", "requires", "similar_to", "specializes_in", "uses",
      "works_with">>

\* a < b for two values of EdgeType
StringLess(a, b) ==
    \E i, j \in DOMAIN EdgeTypeValuesInOrder :
        i < j /\ EdgeTypeValuesInOrder[i] = a /\ EdgeTypeValuesInOrder[j] = b

\* max(edge.edge_type.value for edge in edges) if edges else 'none'
most_common_relationship(edges) ==
    IF edges = <<>> THEN "none"
    ELSE CHOOSE v \in {edges[i].edge_type : i \in DOMAIN edges} :
            \A i \in DOMAIN edges : ~StringLess(v, edges[i].edge_type)

InsightEdgeTypes == {"demonstrates", "relates_to", "uses", "affiliated_with"}

InsightsInit ==
    /\ IdleExcept("fn")
    /\ \E types \in SeqsUpTo(InsightEdgeTypes, MaxInsightEdges) :
          fn_call = [fn |-> "_generate_graph_insights",
                     edges |-> [i \in DOMAIN types |-> [edge_type |-> types[i]]]]
    /\ fn_result = NotReturned

CallGenerateGraphInsights ==
    /\ UNCHANGED notFnVars
    /\ fn_call.fn = "_generate_graph_insights"
    /\ ~fn_result.done
    /\ fn_result' = Returned(most_common_relationship(fn_call.edges))
    /\ fn_call' = fn_call

InsightsNext == CallGenerateGraphInsights

(***************************************************************************)
(* analyze_human_needs (needs_analysis_agent.py).  The Bedrock call        *)
(* succeeds with an LLM response or fails; the themes come from the event. *)
(* A theme is a JSON value: a string or null.  The theme strings of the    *)
(* inputs are a keyword of get_content_aware_scores in some case, or hold  *)
(* none.                                                                   *)
(***************************************************************************)
MaxThemes == 2
fallback_confidence == 30
parser_confidence == 60

Theme(text) == [kind |-> "str", text |-> text]
NullTheme == [kind |-> "null", text |-> ""]

\* theme.lower() and ', '.join(themes) fail on a theme that is no string
ThemeRaises(themes) == \E i \in DOMAIN themes : themes[i].kind # "str"

\* lines 1172-1179: the base scores of the content type, in hundredths
BaseScores(content_type) ==
    [i \in DOMAIN HumanNeed |->
        <<HumanNeed[i],
          CASE content_type = "financial_advice" ->
                  (CASE HumanNeed[i] = "certainty" -> 80
                     [] HumanNeed[i] = "growth" -> 60
                     [] HumanNeed[i] = "significance" -> 50
                     [] OTHER -> 40)
            [] content_type = "interview_transcript" ->
                  (CASE HumanNeed[i] = "significance" -> 80
                     [] HumanNeed[i] = "growth" -> 70
                     [] HumanNeed[i] = "connection" -> 60
                     [] HumanNeed[i] = "variety" -> 50
                     [] OTHER -> 40)
            [] OTHER -> 40>>]

\* lines 1182-1190: what one theme adds to the score of a need
ThemeBonus(theme, need) ==
    LET t == Lower(theme.text) IN
    CASE t = "leadership" ->
            (CASE need = "significance" -> 20 [] need = "connection" -> 10 [] OTHER -> 0)
      [] t \in {"innovation", "technology"} ->
            (CASE need = "growth" -> 20 [] need = "variety" -> 10 [] OTHER -> 0)
      [] t \in {"risk", "security"} ->
            (CASE need = "certainty" -> 20 [] OTHER -> 0)
      [] OTHER -> 0

RECURSIVE ThemeBonuses(_, _)
ThemeBonuses(themes, need) ==
    IF themes = <<>> THEN 0
    ELSE ThemeBonus(Head(themes), need) + ThemeBonuses(Tail(themes), need)

\* get_content_aware_scores, where no theme raises
get_content_aware_scores(content_type, themes) ==
    [i \in DOMAIN HumanNeed |->
        <<HumanNeed[i],
          Decimal(Clamp(BaseScores(content_type)[i][2] + ThemeBonuses(themes, HumanNeed[i])))>>]

NeedsResult(needs_scores, dominant_needs, confidence_score) ==
    [raised |-> "none", needs_scores |-> needs_scores, dominant_needs |-> dominant_needs,
     confidence_score |-> confidence_score]
NeedsRaised(error) ==
    [raised |-> error, needs_scores |-> <<>>, dominant_needs |-> <<>>, confidence_score |-> 0]

\* the try block of analyze_human_needs (lines 988-1015) ends in an exception
TryBlockFails(bedrock, llm_response, content_type, themes) ==
    \/ ThemeRaises(themes)          \* create_dynamic_prompt, ', '.join(themes)
    \/ bedrock # "ok"               \* boto3.client, invoke_model, json.loads of the body
    \/ enhanced_response_parser(llm_response, content_type).raised # "none"

analyze_human_needs(bedrock, llm_response, content_type, themes) ==
    IF ~TryBlockFails(bedrock, llm_response, content_type, themes)
    THEN NeedsResult(enhanced_response_parser(llm_response, content_type).needs_scores,
                     enhanced_response_parser(llm_response, content_type).dominant_needs,
                     parser_confidence)
    ELSE \* except Exception (lines 1017-1029)
         IF ThemeRaises(themes) THEN NeedsRaised("AttributeError")
         ELSE NeedsResult(get_content_aware_scores(content_type, themes),
                          Take(SortedByScoreDescending(
                                  get_content_aware_scores(content_type, themes)),
                               dominant_count),
                          fallback_confidence)

ThemeInputs == {Theme("Leadership"), Theme("risk"), Theme("family"), NullTheme}
BedrockOutcomes == {"ok", "ClientError", "invalid_body"}

NeedsInit ==
    /\ IdleExcept("fn")
    /\ \E b \in BedrockOutcomes, t \in content_types, themes \in SeqsUpTo(ThemeInputs, MaxThemes),
          r \in TextResponses \cup {j \in JsonResponses : j.scores_type # "object"} :
          /\ b # "ok" => r = [kind |-> "text", mentions |-> <<>>]
          /\ fn_call = [fn |-> "analyze_human_needs", bedrock |-> b, llm_response |-> r,
                        content_type |-> t, themes |-> themes]
    /\ fn_result = NotReturned

CallAnalyzeHumanNeeds ==
    /\ UNCHANGED notFnVars
    /\ fn_call.fn = "analyze_human_needs"
    /\ ~fn_result.done
    /\ fn_result' = Returned(analyze_human_needs(fn_call.bedrock, fn_call.llm_response,
                                                 fn_call.content_type, fn_call.themes))
    /\ fn_call' = fn_call

NeedsNext == CallAnalyzeHumanNeeds

(***************************************************************************)
(* Specifications                                                          *)
(***************************************************************************)
vars == <<storeVars, parseVars, v1Vars, v2Vars, fnVars, manifestVars, extractVars>>

SpecStore == StoreInit /\ [][StoreNext]_vars
SpecParse == ParseInit /\ [][ParseNext]_vars
SpecV1 == V1Init /\ [][V1Next]_vars
SpecV2 == V2Init /\ [][V2Next]_vars
SpecFn == FnInit /\ [][FnNext]_vars
SpecPrefix == PrefixInit /\ [][PrefixNext]_vars
SpecCombine == CombineInit /\ [][CombineNext]_vars
SpecParser == ParserInit /\ [][ParserNext]_vars
SpecAgents == AgentsInit /\ [][AgentsNext]_vars
SpecQuality == QualityInit /\ [][QualityNext]_vars
SpecQuery == QueryInit /\ [][QueryNext]_vars
SpecLinked == LinkedInit /\ [][ParseNext]_vars
SpecSequential == ManifestInit /\ [][SequentialNext]_vars
SpecConcurrent == ManifestInit /\ [][ConcurrentNext]_vars
SpecExtract == ExtractInit /\ [][ExtractNext]_vars
SpecHandler == HandlerInit /\ [][HandlerNext]_vars
SpecInterview == InterviewInit /\ [][InterviewNext]_vars
SpecInsights == InsightsInit /\ [][InsightsNext]_vars
SpecNeeds == NeedsInit /\ [][NeedsNext]_vars

(***************************************************************************)
(* Properties of S3GraphStorage                                            *)
(***************************************************************************)
IsPut(e) == e.op = "put_object"
IsSleep(e) == e.op = "sleep"
PutsFor(key) == SelectSeq(trace, LAMBDA e : IsPut(e) /\ e.key = key)
\* number of failed put_object calls for `key` among the first n events of the trace
FailedBefore(key, n) ==
    Cardinality({i \in 1..n : IsPut(trace[i]) /\ trace[i].key = key /\ ~trace[i].ok})
FileKey(name) == S3Key(s3_prefix, name)

\* C1: _store_json_with_retry issues at most max_retries (3) put_object calls for
\* one key, none after the first successful one, raises S3StorageError exactly
\* when all three calls failed, and returns normally exactly when its last call
\* succeeded.
C1_RetryBoundedAndExact ==
    \A key \in Keys :
        LET calls == PutsFor(key) IN
        /\ Len(calls) <= 3
        /\ \A i \in 1..Len(calls) : calls[i].ok => i = Len(calls)
        /\ retry_result[key] = "S3StorageError"
              <=> (Len(calls) = 3 /\ \A i \in 1..3 : ~calls[i].ok)
        /\ retry_result[key] = "returned"
              <=> (Len(calls) >= 1 /\ calls[Len(calls)].ok)

\* C1 witness: one key was stored on its third call and another raised after three failures
C1_Witness ==
    /\ retry_result[FileKey("nodes.json")] = "returned"
    /\ Len(PutsFor(FileKey("nodes.json"))) = 3
    /\ retry_result[FileKey("edges.json")] = "S3StorageError"

\* C2: every wait directly follows a failed put_object of the same key and is
\* followed by the next attempt for that key; the wait after the k-th failed
\* attempt (k = 1, 2) lasts base_delay * 2^(k-1) = 1 s, then 2 s; each of the
\* first two failed attempts is followed by its wait and the third by none.
C2_ExponentialBackoff ==
    \A i \in 1..Len(trace) :
        LET e == trace[i]
            k == FailedBefore(e.key, i) IN
        /\ IsSleep(e) =>
              /\ i > 1 /\ IsPut(trace[i-1]) /\ trace[i-1].key = e.key /\ ~trace[i-1].ok
              /\ k \in {1, 2}
              /\ e.delay = (IF k = 1 THEN 1 ELSE 2)
              /\ k = 2 => \E j \in 1..(i-1) : IsSleep(trace[j]) /\ trace[j].key = e.key
                                               /\ e.delay = 2 * trace[j].delay
              /\ IF i < Len(trace)
                 THEN IsPut(trace[i+1]) /\ trace[i+1].key = e.key
                 ELSE pc \in {"store_files", "customer_manifest_put"} /\ attempt = k
        /\ (IsPut(e) /\ ~e.ok /\ k < 3) =>
              i < Len(trace) /\ IsSleep(trace[i+1]) /\ trace[i+1].key = e.key
        /\ (IsPut(e) /\ ~e.ok /\ k = 3) =>
              (i = Len(trace) \/ ~IsSleep(trace[i+1]))

\* C2 witness: nodes.json failed three times, with waits of 1 s and 2 s in between
C2_Witness ==
    /\ Len(trace) = 5
    /\ trace[2].delay = 1 /\ IsSleep(trace[2])
    /\ trace[4].delay = 2 /\ IsSleep(trace[4])
    /\ IsPut(trace[5]) /\ ~trace[5].ok
    /\ pc = "raised"

\* position of the first put_object for a file in the trace (0 when there is none)
FirstPut(name) ==
    LET S == {i \in 1..Len(trace) : IsPut(trace[i]) /\ trace[i].key = FileKey(name)}
    IN IF S = {} THEN 0 ELSE CHOOSE i \in S : \A j \in S : i <= j
LastPut(name) ==
    LET S == {i \in 1..Len(trace) : IsPut(trace[i]) /\ trace[i].key = FileKey(name)}
    IN IF S = {} THEN 0 ELSE CHOOSE i \in S : \A j \in S : i >= j
Stored(name) == bucket[FileKey(name)].kind # "absent"
WrittenAfterStored(earlier, later) ==
    FirstPut(later) > 0 =>
        /\ Stored(earlier)
        /\ LastPut(earlier) < FirstPut(later)
        /\ trace[LastPut(earlier)].ok

\* C10: store_graph_data writes nodes.json, edges.json, metadata.json, manifest.json
\* in that order, each only after the previous one was stored; the s3:// location
\* is returned only if all four were stored; a file whose write failed makes the
\* call raise S3StorageError and no later file is written.
C10_StoreOrder ==
    /\ WrittenAfterStored("nodes.json", "edges.json")
    /\ WrittenAfterStored("edges.json", "metadata.json")
    /\ WrittenAfterStored("metadata.json", "manifest.json")
    /\ FirstPut("manifest.json") > 0 =>
          Stored("nodes.json") /\ Stored("edges.json") /\ Stored("metadata.json")
    /\ store_result \notin {NoResult, "S3StorageError"} =>
          /\ store_result = "s3://" \o s3_prefix
          /\ \A i \in 1..4 : Stored(required_files[i])
    /\ \A i \in 1..4 :
          retry_result[FileKey(required_files[i])] = "S3StorageError" =>
              /\ store_result = "S3StorageError"
              /\ \A j \in (i+1)..4 : FirstPut(required_files[j]) = 0
    /\ (pc \in {"returned", "raised"} /\ \E i \in 1..4 : ~Stored(required_files[i]))
          => store_result = "S3StorageError"

\* C10 witness: the location was returned after all four files were written
C10_Witness ==
    /\ store_result = "s3://" \o s3_prefix
    /\ \A i \in 1..4 : Stored(required_files[i])
    /\ Len(PutsFor(FileKey("edges.json"))) = 2

(***************************************************************************)
(* Properties of HypergraphParser                                          *)
(***************************************************************************)
\* the node and edge types enumerated by the data model
EnumeratedNodeTypes ==
    {"person", "organization", "concept", "skill", "need", "behavioral_pattern",
     "personality_trait", "financial_instrument", "business_concept", "topic"}
EnumeratedEdgeTypes ==
    {"demonstrates", "relates_to", "influences", "requires", "enables", "part_of",
     "similar_to", "works_with", "specializes_in", "interviews", "discusses",
     "affiliated_with", "uses"}

RunNodes(r) == Range(runs[r].extracted_nodes)
RunEdges(r) == Range(runs[r].extracted_edges)
AllExtractedNodes == UNION {RunNodes(r) : r \in 1..Len(runs)}
AllExtractedEdges == UNION {RunEdges(r) : r \in 1..Len(runs)}
\* the hypernode / hyperedge an extracted item was made from
NodeSource(n) == Hypernodes(hypergraph_data)[n.origin]
EdgeSource(e) == Hyperedges(hypergraph_data)[e.origin]
Ids(items) == [i \in 1..Len(items) |-> items[i].id]
Has(h, f, v) == f \in DOMAIN h /\ h[f] = v
SameFields(a, b, fields) ==
    \A f \in fields : /\ (f \in DOMAIN a) = (f \in DOMAIN b)
                      /\ f \in DOMAIN a => a[f] = b[f]

\* C3: extracted node ids depend only on (customer_id, node_type, content) and edge
\* ids only on (customer_id, source_node_id, target_node_id, edge_type): items made
\* from hypernodes / hyperedges that agree on these fields get the same id,
\* and two runs of parse_hypergraph_output on the same data give the same node
\* ids and the same edge ids in the same order.
C3_DeterministicIds ==
    /\ \A a, b \in AllExtractedNodes :
          SameFields(NodeSource(a), NodeSource(b), {"node_type", "content"}) => a.id = b.id
    /\ \A a, b \in AllExtractedEdges :
          SameFields(EdgeSource(a), EdgeSource(b), {"source_node_id", "target_node_id", "edge_type"})
              => a.id = b.id
    /\ Len(runs) = 2 =>
          /\ Ids(runs[1].extracted_nodes) = Ids(runs[2].extracted_nodes)
          /\ Ids(runs[1].extracted_edges) = Ids(runs[2].extracted_edges)

\* C3 witness: two runs at different times extracted two nodes that differ in
\* confidence only, and an edge
C3_Witness ==
    /\ Len(runs) = 2
    /\ Len(runs[1].extracted_nodes) = 2
    /\ runs[1].extracted_nodes[1].confidence # runs[1].extracted_nodes[2].confidence
    /\ runs[1].extracted_nodes[1].id = runs[1].extracted_nodes[2].id
    /\ runs[1].extracted_nodes[1].created_at # runs[2].extracted_nodes[1].created_at
    /\ Len(runs[2].extracted_edges) = 1

\* C7: every extracted node's confidence and every extracted edge's weight lies
\* in [0, 1]; an input below 0 is stored as 0, one above 1 as 1, and one in
\* [0, 1] unchanged.
ClampedToUnitInterval(input, stored) ==
    /\ 0 <= stored /\ stored <= 100
    /\ "confidence" \in DOMAIN input =>
          LET c == input.confidence.v IN
          /\ c < 0 => stored = 0
          /\ c > 100 => stored = 100
          /\ (0 <= c /\ c <= 100) => stored = c
C7_ConfidenceInUnitInterval ==
    /\ \A n \in AllExtractedNodes : ClampedToUnitInterval(NodeSource(n), n.confidence)
    /\ \A e \in AllExtractedEdges : ClampedToUnitInterval(EdgeSource(e), e.weight)

\* C7 witness: a node with input confidence 1.5 stored as 1 next to one with -0.5
\* stored as 0, and an edge with input confidence above 1
C7_Witness ==
    /\ \E n \in AllExtractedNodes : Has(NodeSource(n), "confidence", Num(150)) /\ n.confidence = 100
    /\ \E n \in AllExtractedNodes : Has(NodeSource(n), "confidence", Num(-50)) /\ n.confidence = 0
    /\ \E e \in AllExtractedEdges : "confidence" \in DOMAIN EdgeSource(e)
                                    /\ EdgeSource(e).confidence.v > 100 /\ e.weight = 100

\* C8: every extracted node's node_type is one of the ten enumerated node types
\* and every extracted edge's relationship_type one of the thirteen enumerated
\* edge types; a lower-cased input type inside the enumeration is kept and one
\* outside it becomes 'concept' (nodes) or 'relates_to' (edges).
C8_TypesEnumerated ==
    /\ Cardinality(EnumeratedNodeTypes) = 10
    /\ Cardinality(EnumeratedEdgeTypes) = 13
    /\ \A n \in AllExtractedNodes :
          /\ n.node_type \in EnumeratedNodeTypes
          /\ "node_type" \in DOMAIN NodeSource(n) =>
                LET t == Lower(NodeSource(n).node_type) IN
                n.node_type = IF t \in EnumeratedNodeTypes THEN t ELSE "concept"
    /\ \A e \in AllExtractedEdges :
          /\ e.relationship_type \in EnumeratedEdgeTypes
          /\ "edge_type" \in DOMAIN EdgeSource(e) =>
                LET t == Lower(EdgeSource(e).edge_type) IN
                e.relationship_type = IF t \in EnumeratedEdgeTypes THEN t ELSE "relates_to"

\* C8 witness: an unknown node type became 'concept', an upper-case one was kept
\* lower-cased, and an unknown edge type became 'relates_to'
C8_Witness ==
    /\ \E n \in AllExtractedNodes : Has(NodeSource(n), "node_type", "widget") /\ n.node_type = "concept"
    /\ \E n \in AllExtractedNodes : Has(NodeSource(n), "node_type", "TOPIC") /\ n.node_type = "topic"
    /\ \E e \in AllExtractedEdges : Has(EdgeSource(e), "edge_type", "owns")
                                    /\ e.relationship_type = "relates_to"

(***************************************************************************)
(* Properties of NeptuneHyperGraphBuilder                                  *)
(***************************************************************************)
AfterCreation == v1_pc \in {"apply_temporal_indexing", "calculate_confidence_scores", "store_in_neptune"}
temporal_keys == {"temporal_index", "temporal_category"}
\* object b is object a except, at most, for added temporal metadata keys and
\* its confidence
SameButMetadataAndConfidence(a, b) ==
    /\ b = [a EXCEPT !.metadata = b.metadata, !.confidence = b.confidence]
    /\ DOMAIN b.metadata \subseteq DOMAIN a.metadata \cup temporal_keys
    /\ \A k \in DOMAIN a.metadata : k \in DOMAIN b.metadata /\ b.metadata[k] = a.metadata[k]
StepKeeps(before, after) ==
    /\ Len(after) = Len(before)
    /\ \A i \in 1..Len(before) :
          /\ SameButMetadataAndConfidence(before[i], after[i])
          /\ v1_pc # "apply_temporal_indexing" => after[i].metadata = before[i].metadata
          /\ v1_pc = "apply_temporal_indexing" =>
                /\ after[i].metadata.temporal_index = before[i].timestamp
                /\ after[i].metadata.temporal_category = "present"
          /\ v1_pc # "calculate_confidence_scores" => after[i].confidence = before[i].confidence

\* C4 as stated: once the nodes and edges are created, no later step of
\* build_hypergraph_from_interview changes any field of any of them.
C4_NeverMutatedAfterCreation ==
    [][AfterCreation => v1_hypernodes' = v1_hypernodes /\ v1_hyperedges' = v1_hyperedges]_vars

\* C4: once the nodes and edges of the V1 builder are created, no later step
\* adds or removes an object or changes a field other than metadata and
\* confidence: apply_temporal_indexing only adds temporal_index (the object's
\* timestamp) and temporal_category ('present') to each metadata, keeping the
\* existing keys; only calculate_confidence_scores changes a confidence, and
\* only of a node that an edge names (and of edges); store_in_neptune changes
\* nothing.
C4_OnlyMetadataAndConfidenceChange ==
    [][AfterCreation =>
          /\ StepKeeps(v1_hypernodes, v1_hypernodes')
          /\ StepKeeps(v1_hyperedges, v1_hyperedges')
          /\ \A i \in 1..Len(v1_hypernodes) :
                (\A j \in 1..Len(v1_hyperedges) : v1_hypernodes[i].id \notin Range(v1_hyperedges[j].nodes))
                    => v1_hypernodes'[i].confidence = v1_hypernodes[i].confidence]_vars

\* C4 witness: the build returned a person node and an edge that carry the
\* temporal metadata and a confidence other than the one they were created with
C4_Witness ==
    /\ v1_pc = "returned"
    /\ \E i \in 1..Len(v1_hypernodes) :
          /\ v1_hypernodes[i].node_type = "person"
          /\ v1_hypernodes[i].metadata.temporal_category = "present"
          /\ v1_hypernodes[i].confidence # v1_hypernodes[i].metadata.extraction_confidence
    /\ \E j \in 1..Len(v1_hyperedges) :
          /\ v1_hyperedges[j].metadata.temporal_index = v1_hyperedges[j].timestamp
          /\ v1_hyperedges[j].confidence # v1_hyperedges[j].strength

(***************************************************************************)
(* Properties of EnhancedHypergraphBuilderV2                               *)
(***************************************************************************)
\* C5: in the result of build_enhanced_hypergraph no two hypernodes have the
\* same node type and the same case-insensitive content, and all hypernode
\* ids are pairwise distinct.
C5_HypernodesDeduplicated ==
    v2_pc = "returned" =>
        \A i, j \in 1..Len(v2_hypernodes) :
            i # j =>
                /\ ~(/\ v2_hypernodes[i].node_type = v2_hypernodes[j].node_type
                     /\ Lower(v2_hypernodes[i].content) = Lower(v2_hypernodes[j].content))
                /\ v2_hypernodes[i].id # v2_hypernodes[j].id

EntityKey(e) == <<Lower(e.text), e.entity_type>>
RelationshipKey(r) == <<Lower(r.source_entity), Lower(r.target_entity), r.relationship_type>>
\* output holds one item per key of input: for each key the earliest of the
\* input items that have the highest confidence among the items with that key
KeepsBestPerKey(input, output, Key(_)) ==
    /\ \A i, j \in 1..Len(output) : i # j => Key(output[i]) # Key(output[j])
    /\ {Key(input[i]) : i \in 1..Len(input)} = {Key(output[i]) : i \in 1..Len(output)}
    /\ \A o \in 1..Len(output) :
          \E i \in 1..Len(input) :
              /\ output[o] = input[i]
              /\ \A j \in 1..Len(input) :
                    Key(input[j]) = Key(input[i]) =>
                        \/ input[j].confidence < input[i].confidence
                        \/ input[j].confidence = input[i].confidence /\ i <= j

\* C6: _deduplicate_entities returns exactly one entity for each distinct
\* (lower-cased text, entity type) key of its input and
\* _deduplicate_relationships exactly one relationship for each distinct
\* (lower-cased source, lower-cased target, relationship type) key; the kept
\* item has the maximum confidence among the input items with its key and is
\* the earliest such item on a tie.
C6_DeduplicationKeepsBest ==
    fn_result.done =>
        /\ fn_call.fn = "_deduplicate_entities" =>
              KeepsBestPerKey(fn_call.entities, fn_result.value, EntityKey)
        /\ fn_call.fn = "_deduplicate_relationships" =>
              KeepsBestPerKey(fn_call.relationships, fn_result.value, RelationshipKey)

\* C6 witness: three entities with one key, the later two tied on the highest
\* confidence and spelled differently, were reduced to the second
C6_Witness ==
    /\ fn_result.done
    /\ fn_call.fn = "_deduplicate_entities"
    /\ Len(fn_call.entities) = 3
    /\ Len(fn_result.value) = 1
    /\ fn_call.entities[1].confidence < fn_call.entities[2].confidence
    /\ fn_call.entities[3].confidence = fn_call.entities[2].confidence
    /\ fn_call.entities[3].text # fn_call.entities[2].text
    /\ fn_result.value[1] = fn_call.entities[2]

HasNodeFor(hypernodes, text) ==
    \E i \in 1..Len(hypernodes) : Lower(hypernodes[i].content) = Lower(text)
NodeIds(hypernodes) == {hypernodes[i].id : i \in 1..Len(hypernodes)}

\* C9: every hyperedge is a binary edge between existing nodes: its
\* source_node_id and its target_node_id are ids of hypernodes of the same
\* result, and a relationship whose source or target text matches no
\* hypernode produces no edge (the edges are those of the relationships whose
\* two texts both match, in order).
C9_EdgesBetweenExistingNodes ==
    (fn_result.done /\ fn_call.fn = "_create_enhanced_hyperedges") =>
        LET hypernodes == fn_call.hypernodes
            edges == fn_result.value
            matched == SelectSeq(fn_call.relationships,
                                 LAMBDA r : HasNodeFor(hypernodes, r.source_entity)
                                            /\ HasNodeFor(hypernodes, r.target_entity))
        IN /\ \A k \in 1..Len(edges) :
                 /\ edges[k].source_node_id \in NodeIds(hypernodes)
                 /\ edges[k].target_node_id \in NodeIds(hypernodes)
           /\ Len(edges) = Len(matched)
           /\ \A k \in 1..Len(edges) :
                 \E s, t \in 1..Len(hypernodes) :
                    /\ Lower(hypernodes[s].content) = Lower(matched[k].source_entity)
                    /\ Lower(hypernodes[t].content) = Lower(matched[k].target_entity)
                    /\ edges[k].source_node_id = hypernodes[s].id
                    /\ edges[k].target_node_id = hypernodes[t].id

\* C9 witness: of two relationships, the one between the texts of two
\* hypernodes became the only edge and the one naming an unknown text none
C9_Witness ==
    /\ fn_result.done
    /\ fn_call.fn = "_create_enhanced_hyperedges"
    /\ Len(fn_call.relationships) = 2
    /\ HasNodeFor(fn_call.hypernodes, fn_call.relationships[1].source_entity)
    /\ HasNodeFor(fn_call.hypernodes, fn_call.relationships[1].target_entity)
    /\ ~HasNodeFor(fn_call.hypernodes, fn_call.relationships[2].target_entity)
    /\ Len(fn_result.value) = 1
    /\ fn_result.value[1].source_node_id # fn_result.value[1].target_node_id

(***************************************************************************)
(* Properties of the storage keys                                          *)
(***************************************************************************)
\* C11: for any two (customer_id, extraction_id) pairs that differ,
\* _build_s3_prefix yields different prefixes.
C11_DistinctPairsDistinctPrefixes ==
    (fn_result.done /\ fn_call.fn = "_build_s3_prefix") =>
        (fn_call.first # fn_call.second => fn_result.value.first # fn_result.value.second)

(***************************************************************************)
(* Properties of InterviewNeedsAnalyzer                                    *)
(***************************************************************************)
InUnitInterval(scores) == \A need \in DOMAIN scores : scores[need].v \in 0..100

\* C12: combine_needs_scores returns, for each of the six needs,
\* 0.3 * keyword score + 0.7 * LLM score (a missing score counts as 0): exactly
\* six entries, each in [0, 1] when the input scores are in [0, 1].
C12_WeightedBlendOfSixNeeds ==
    (fn_result.done /\ fn_call.fn = "combine_needs_scores"
        /\ InUnitInterval(fn_call.keyword_scores) /\ InUnitInterval(fn_call.llm_scores)) =>
        /\ fn_result.value.raised = "none"
        /\ DOMAIN fn_result.value.combined_scores = Range(HumanNeed)
        /\ Cardinality(DOMAIN fn_result.value.combined_scores) = 6
        /\ \A need \in Range(HumanNeed) :
              /\ fn_result.value.combined_scores[need] =
                    3 * ScoreGet(fn_call.keyword_scores, need).v
                        + 7 * ScoreGet(fn_call.llm_scores, need).v
              /\ fn_result.value.combined_scores[need] \in 0..1000

\* the items are the three highest-scoring entries of scores, highest first
ThreeHighest(items, scores) ==
    /\ Len(items) = 3
    /\ \A i \in 1..3 : \E j \in 1..Len(scores) : scores[j] = items[i]
    /\ \A i, j \in 1..3 : i # j => items[i][1] # items[j][1]
    /\ \A i \in 1..2 : items[i][2].v >= items[i + 1][2].v
    /\ \A j \in 1..Len(scores) :
          (\A i \in 1..3 : items[i] # scores[j]) => scores[j][2].v <= items[3][2].v

\* C13: for any LLM response text, the result of enhanced_response_parser
\* has a score for each of the six needs, and its dominant_needs are the three
\* highest-scoring needs of needs_scores in non-increasing score order.
C13_SixScoresAndThreeDominant ==
    (fn_result.done /\ fn_call.fn = "enhanced_response_parser") =>
        /\ fn_result.value.raised = "none"
        /\ \A need \in Range(all_needs) : DictHas(fn_result.value.needs_scores, need)
        /\ ThreeHighest(fn_result.value.dominant_needs, fn_result.value.needs_scores)

(***************************************************************************)
(* Properties of FileAnalyzer                                              *)
(***************************************************************************)
AgentOrder == <<"interview_processing", "nlp_processing", "needs_analysis", "hypergraph_builder">>

\* C14: determine_required_agents returns a list that starts with
\* 'interview_processing' and ends with 'hypergraph_builder', contains
\* 'nlp_processing' exactly when the content has more than 50 words, contains
\* 'needs_analysis' exactly when the metadata content_type is
\* 'interview_transcript', and lists those present in the fixed order.
C14_RequiredAgents ==
    (fn_result.done /\ fn_call.fn = "determine_required_agents") =>
        LET agents == fn_result.value
        IN /\ agents[1] = "interview_processing"
           /\ agents[Len(agents)] = "hypergraph_builder"
           /\ ("nlp_processing" \in Range(agents)) <=> (Len(fn_call.content) > 50)
           /\ ("needs_analysis" \in Range(agents)) <=>
                  ("content_type" \in DOMAIN fn_call.metadata
                      /\ fn_call.metadata["content_type"] = "interview_transcript")
           /\ agents = SelectSeq(AgentOrder, LAMBDA a : a \in Range(agents))

C14_Witness ==
    /\ fn_result.done /\ fn_call.fn = "determine_required_agents"
    /\ Len(fn_call.content) = 51
    /\ fn_call.metadata = [k \in {"content_type"} |-> "interview_transcript"]
    /\ fn_result.value = AgentOrder

(***************************************************************************)
(* Properties of the graph quality score                                   *)
(***************************************************************************)
\* 0.3 * (sum_n / 100 / n) + 0.3 * (sum_e / 100 / e) + 0.2 * min(tn / 6, 1)
\* + 0.2 * min(te / 5, 1), as a number of parts out of 30000 * n * e
WeightedAverageNumerator(sum_n, n, sum_e, e, tn, te) ==
    90 * sum_n * e + 90 * sum_e * n
        + 1000 * n * e * (IF tn >= 6 THEN 6 ELSE tn)
        + 1200 * n * e * (IF te >= 5 THEN 5 ELSE te)

\* C15: _calculate_quality_score returns 0.0 when there are no nodes, and
\* otherwise 0.3 * average node confidence + 0.3 * average edge confidence
\* (0 when there are no edges) + 0.2 * min(distinct node types / 6, 1)
\* + 0.2 * min(distinct edge types / 5, 1); the result lies in [0, 1] when
\* every confidence lies in [0, 1].
C15_QualityScoreWeightedAverage ==
    (fn_result.done /\ fn_call.fn = "_calculate_quality_score") =>
        LET nodes == fn_call.nodes
            edges == fn_call.edges
            score == fn_result.value
            e == IF edges = <<>> THEN 1 ELSE Len(edges)
        IN /\ score.den > 0
           /\ nodes = <<>> => score.num = 0
           /\ nodes # <<>> =>
                 /\ score.den = 30000 * Len(nodes) * e
                 /\ score.num =
                       WeightedAverageNumerator(
                           SumConfidence(nodes), Len(nodes), SumConfidence(edges), e,
                           Cardinality({nodes[i].node_type : i \in 1..Len(nodes)}),
                           Cardinality({edges[i].edge_type : i \in 1..Len(edges)}))
           /\ 0 <= score.num /\ score.num <= score.den

C15_Witness ==
    /\ fn_result.done /\ fn_call.fn = "_calculate_quality_score"
    /\ Cardinality({fn_call.nodes[i].node_type : i \in 1..Len(fn_call.nodes)}) = 7
    /\ Cardinality({fn_call.edges[i].edge_type : i \in 1..Len(fn_call.edges)}) = 6
    /\ fn_result.value.num = fn_result.value.den

(***************************************************************************)
(* Properties of the Neptune query proxy                                   *)
(***************************************************************************)
CustomerOfVertex(g, id) == g.V[CHOOSE i \in 1..Len(g.V) : g.V[i].id = id].customer_id

\* every returned vertex belongs to the requesting customer, and every
\* returned edge joins two vertices of the requesting customer
ScopedToCustomer ==
    LET data == fn_result.value.data
    IN /\ fn_call.fn = "query_customer_nodes" =>
             \A i \in 1..Len(data) : CustomerOfVertex(fn_call.g, data[i].id) = fn_call.customer_id
       /\ fn_call.fn = "query_customer_edges" =>
             \A i \in 1..Len(data) :
                /\ CustomerOfVertex(fn_call.g, data[i].source) = fn_call.customer_id
                /\ CustomerOfVertex(fn_call.g, data[i].target) = fn_call.customer_id

QueryReturned ==
    /\ fn_result.done
    /\ fn_call.fn \in {"query_customer_nodes", "query_customer_edges"}
    /\ fn_result.value.raised = "none"

\* C16: for a request with customer_id c, query_customer_nodes returns only
\* vertices whose customer_id equals c and query_customer_edges returns only
\* edges whose source and target vertex both have customer_id c; neither
\* returns more than `limit` items.
C16_ScopedAndAtMostLimit ==
    QueryReturned => (ScopedToCustomer /\ Len(fn_result.value.data) <= fn_call.limit)

\* C16, as the code has it: the results are scoped to the customer for every
\* limit; they are at most `limit` items when limit is not negative, and all
\* the customer's items when limit is -1.
C16_ScopedAndAtMostNonNegativeLimit ==
    QueryReturned =>
        /\ ScopedToCustomer
        /\ fn_call.limit >= 0 => Len(fn_result.value.data) <= fn_call.limit
        /\ fn_call.limit = -1 =>
              Len(fn_result.value.data) =
                  Len(IF fn_call.fn = "query_customer_nodes"
                      THEN HasCustomer(fn_call.g, fn_call.customer_id)
                      ELSE EdgesOfCustomer(fn_call.g, fn_call.customer_id))

C16_Witness ==
    /\ QueryReturned
    /\ fn_call.fn = "query_customer_edges"
    /\ fn_call.limit = 1
    /\ Len(fn_result.value.data) = 1
    /\ Len(EdgesOfCustomer(fn_call.g, fn_call.customer_id)) > 1
    /\ \E i \in 1..Len(fn_call.g.E) :
          /\ CustomerOfVertex(fn_call.g, fn_call.g.E[i].outV) = fn_call.customer_id
          /\ CustomerOfVertex(fn_call.g, fn_call.g.E[i].inV) # fn_call.customer_id

(***************************************************************************)
(* Properties of the extracted graph                                       *)
(***************************************************************************)
\* every hyperedge of the data names hypernodes of the data
HyperedgesNameHypernodes(data) ==
    \A i \in 1..Len(Hyperedges(data)) :
        /\ Get(Hyperedges(data)[i], "source_node_id", "") \in HypernodeIds(Hypernodes(data))
        /\ Get(Hyperedges(data)[i], "target_node_id", "") \in HypernodeIds(Hypernodes(data))

\* C17: extraction preserves referential integrity: for hypergraph data in
\* which every hyperedge's source_node_id and target_node_id is the id of a
\* hypernode of the same data, every extracted edge's source_node_id and
\* target_node_id equals the id of some extracted node of that data.
C17_ReferentialIntegrity ==
    HyperedgesNameHypernodes(hypergraph_data) =>
        \A r \in 1..Len(runs) : \A e \in RunEdges(r) :
            /\ \E n \in RunNodes(r) : n.id = e.source_node_id
            /\ \E n \in RunNodes(r) : n.id = e.target_node_id

(***************************************************************************)
(* Properties of the integrity check of S3GraphStorage                     *)
(***************************************************************************)
\* C20: the integrity check after storing fails on a count mismatch:
\* _validate_stored_files raises S3StorageError, and so store_graph_data
\* fails, when the number of entries read back from nodes.json or edges.json
\* differs from the number of extracted nodes or edges.
C20_CountMismatchFails ==
    validation = "count_mismatch" => (pc = "raised" /\ store_result = "S3StorageError")

(***************************************************************************)
(* Properties of the customer manifest                                     *)
(***************************************************************************)
AllCallsSucceeded == \A i \in 1..Len(m_calls) : m_calls[i].pc = "done" /\ m_calls[i].ok

Listed(extraction_id, extractions) ==
    \E k \in 1..Len(extractions) : extractions[k].extraction_id = extraction_id

\* two calls, each of which read the manifest before the other wrote it
BothReadBeforeEitherWrote ==
    /\ Len(m_calls) = 2
    /\ ~Listed(m_calls[1].extraction_id, m_calls[2].read)
    /\ ~Listed(m_calls[2].extraction_id, m_calls[1].read)

\* C18: when two store_graph_data runs for the same customer interleave, with
\* both reading the customer manifest before either writes it back, the
\* customer manifest finally contains the entries of both runs.
C18_NoEntryLost ==
    (AllCallsSucceeded /\ BothReadBeforeEitherWrote) =>
        \A i \in 1..2 : Listed(m_calls[i].extraction_id, Extractions(m_object))

IsPrefix(s, t) == Len(s) <= Len(t) /\ SubSeq(t, 1, Len(s)) = s

\* after calls that all succeeded the list is the prior list followed by one
\* entry per call, in call order
OneEntryPerCallInOrder ==
    (Len(m_calls) > 0 /\ AllCallsSucceeded) =>
        /\ m_object.kind = "customer_manifest"
        /\ m_object.extractions =
              m_prior \o [i \in 1..Len(m_calls) |-> extraction_entry(m_calls[i].extraction_id)]

\* C19: the customer manifest is append-only: after sequential
\* store_graph_data calls for one customer whose manifest reads and writes all
\* succeed, its extractions list holds exactly one entry per call, in call
\* order; an update never removes or alters an entry of an earlier call; and
\* the manifest is created with an empty list when it does not yet exist.
C19_AppendOnly ==
    /\ []OneEntryPerCallInOrder
    /\ [][IsPrefix(Extractions(m_object), Extractions(m_object'))]_vars

C19_Witness ==
    /\ Len(m_calls) = 3 /\ AllCallsSucceeded
    /\ m_prior = <<>>
    /\ Len(m_object.extractions) = 3
    /\ m_object.extractions[3].extraction_id = "e3"

(***************************************************************************)
(* Properties of graph_extraction_agent.lambda_handler and                 *)
(* GraphExtractor.extract_graph_data                                       *)
(***************************************************************************)
\* the customer id resolved from the event is empty or the placeholder, or
\* no hypergraph data was found in it
InvalidInput(e) ==
    \/ ExtractCustomerId(e) \in {"", "unknown_customer"}
    \/ ExtractHypergraphData(e).kind = "empty"

\* C21: when the customer id resolved from the event is empty or
\* 'unknown_customer', or no hypergraph data is found, extract_graph_data
\* raises GraphExtractionError before any put_object: no file and no entry of
\* the customer manifest is written.
C21_InvalidInputLeavesStorageUntouched ==
    /\ [](InvalidInput(event) /\ x_pc # "invoked" =>
            /\ x_pc \in {"raised", "responded"}
            /\ x_error.type = "GraphExtractionError"
            /\ trace = <<>>
            /\ pc = "idle"
            /\ \A k \in Keys \ {customer_manifest_key} : bucket[k] = Absent)
    /\ [][InvalidInput(event) => bucket' = bucket]_vars

C21_Witness ==
    /\ ExtractCustomerId(event) = "unknown_customer"
    /\ event.result.kind = "hypergraph"
    /\ bucket[customer_manifest_key] = ManifestObj(<<"e0">>)
    /\ x_pc = "raised"

\* C22: lambda_handler turns every outcome of extract_graph_data into a
\* response and propagates none: statusCode 200 with success true when it
\* returned, 400 when the GraphExtractionError it raised is categorized
\* VALIDATION_ERROR or PARSING_ERROR, 500 for every other failure, and
\* success false in every failure response.
C22_EveryFailureBecomesAResponse ==
    /\ [](x_pc = "raised" => x_error.type = "GraphExtractionError")
    /\ [](x_pc = "responded" =>
            IF x_error = NoError
            THEN response.statusCode = 200 /\ response.success
            ELSE /\ ~response.success
                 /\ response.statusCode =
                        IF categorize_error(x_error) \in {"VALIDATION_ERROR", "PARSING_ERROR"}
                        THEN 400 ELSE 500)
    /\ [][(x_pc = "returned" \/ x_pc = "raised") => x_pc' = "responded"]_vars

C22_Witness ==
    /\ x_pc = "responded"
    /\ event.result.kind = "malformed"
    /\ response.statusCode = 400
    /\ response.error_category = "PARSING_ERROR"

\* C23: the error_category of lambda_handler's error response is the
\* category extract_graph_data assigned to the original exception: the
\* failure of an S3 store is reported with its S3_* category and that
\* category's retry flag.
C23_StorageFailureKeepsItsCategory ==
    x_pc = "responded" /\ store_result = "S3StorageError" =>
        /\ x_error.category \in {"S3_TRANSIENT_ERROR", "S3_PERMISSION_ERROR", "S3_STORAGE_ERROR"}
        /\ response.error_category = x_error.category
        /\ response.retry = RetryOf(x_error.category)

\* the four files of the extraction are in the bucket
FourFilesStored == \A i \in 1..4 : bucket[S3Key(s3_prefix, required_files[i])] # Absent

\* C24: a failure reading or writing the customer-level manifest does not
\* fail the store: store_graph_data goes on to validate the four files, which
\* stay stored, and returns the S3 location.
C24_ManifestFailureDoesNotFailStore ==
    /\ [][(pc = "customer_manifest_get" \/ pc = "customer_manifest_put") =>
            /\ pc' = "customer_manifest_put" \/ pc' = "validate_head"
            /\ store_result' = NoResult
            /\ FourFilesStored']_vars
    /\ [](pc = "validate_head" \/ pc = "validate_counts" => FourFilesStored)
    /\ [](pc = "returned" => store_result = "s3://" \o s3_prefix /\ FourFilesStored)

C24_Witness ==
    /\ pc = "returned"
    /\ retry_result[customer_manifest_key] = "S3StorageError"
    /\ bucket[customer_manifest_key] = Absent
    /\ store_result = "s3://customer-graphs/c1/extractions/e1"

(***************************************************************************)
(* Properties of the V2 builder's lambda_handler                           *)
(***************************************************************************)
\* C25: for an event without 'agent_spec' the V2 builder's lambda_handler
\* uses the event itself as the analysis data, builds the hypergraph and
\* returns statusCode 200 with success true.
C25_EventWithoutAgentSpecBuilds ==
    fn_call.fn = "lambda_handler" /\ ~fn_call.event.has_agent_spec /\ fn_result.done =>
        /\ fn_result.value.statusCode = 200
        /\ fn_result.value.success
        /\ v2_pc = "returned"

(***************************************************************************)
(* Properties of _is_interview_format                                      *)
(***************************************************************************)
\* C26: CleanEntityExtractor._is_interview_format and
\* CleanRelationshipExtractor._is_interview_format return the same value for
\* every file analysis and file path.
C26_SameInterviewDecision ==
    fn_call.fn = "_is_interview_format" /\ fn_result.done =>
        fn_result.value.entity_extractor = fn_result.value.relationship_extractor

(***************************************************************************)
(* Properties of _generate_graph_insights                                  *)
(***************************************************************************)
\* the number of edges of a type
Occurrences(edges, t) == Cardinality({i \in DOMAIN edges : edges[i].edge_type = t})

\* C27: most_common_relationship is an edge type that occurs among the
\* hyperedges at least as often as every other edge type, and 'none' when
\* there are no hyperedges.
C27_MostCommonRelationship ==
    fn_call.fn = "_generate_graph_insights" /\ fn_result.done =>
        IF fn_call.edges = <<>> THEN fn_result.value = "none"
        ELSE \A i \in DOMAIN fn_call.edges :
                Occurrences(fn_call.edges, fn_result.value)
                    >= Occurrences(fn_call.edges, fn_call.edges[i].edge_type)

(***************************************************************************)
(* Properties of analyze_human_needs                                       *)
(***************************************************************************)
\* C28: analyze_human_needs never raises: when the Bedrock call or the
\* parsing of its response fails it returns the default result, whose
\* needs_scores has all six needs, each in [0, 1], whose dominant_needs are
\* the three highest of those scores in non-increasing order, and whose
\* confidence_score is 0.3.
C28_NeverRaisesAndDefaults ==
    fn_call.fn = "analyze_human_needs" /\ fn_result.done =>
        /\ fn_result.value.raised = "none"
        /\ TryBlockFails(fn_call.bedrock, fn_call.llm_response, fn_call.content_type,
                         fn_call.themes) =>
              /\ Len(fn_result.value.needs_scores) = 6
              /\ \A i \in 1..6 : /\ fn_result.value.needs_scores[i][1] = HumanNeed[i]
                                 /\ fn_result.value.needs_scores[i][2].v \in 0..100
              /\ ThreeHighest(fn_result.value.dominant_needs, fn_result.value.needs_scores)
              /\ fn_result.value.confidence_score = 30

====
